---- MODULE Spec2Model ----
(***************************************************************************)
(* zk-KYC: the off-chain VerificationService, the on-chain ZkKYCRegistry,  *)
(* the proof server, the nullifier derivations, the CredentialIssuer and   *)
(* the web application's wallet session, as state machines.                *)
(*                                                                         *)
(* Each component has its own specification over the shared variables:     *)
(*   Spec           VerificationService (backend/api/verificationService)  *)
(*   SpecLoaded     VerificationService with the circuit artifacts loaded  *)
(*   SpecRevoke     VerificationService with two users                     *)
(*   SpecBatch      VerificationService with a batchVerifyProofs call      *)
(*   SpecRegistry   ZkKYCRegistry (the Solidity contract)                  *)
(*   SpecServer     the express proof server (backend/api/proofServer)     *)
(*   SpecNullifier  the three generateNullifier functions                  *)
(*   SpecIssuer     CredentialIssuer (the class CredentialIssuer):         *)
(*                  issuance and revocation                                *)
(*   SpecIssuerVerify, SpecIssuerProve, SpecIssuerDisclose                 *)
(*                  CredentialIssuer with verifyCredential, with           *)
(*                  generateZKProof, with generateSelectiveDisclosure      *)
(*   SpecApp        the App component (my-app/src/App.jsx)                 *)
(* A component's variables stay at their initial value in the other        *)
(* components' specifications.                                             *)
(***************************************************************************)
EXTENDS Integers, Sequences, FiniteSets, TLC

(***************************************************************************)
(* Bounds of the model.                                                    *)
(***************************************************************************)
\* The clock (Date.now(), block.timestamp) runs over 1..MaxTime.
MaxTime == 2
\* verifyProof calls made on the VerificationService.
MaxCalls == 2
\* Proofs the VerificationService holds or is generating.
MaxProofs == 1
\* Events the ZkKYCRegistry emits.
MaxEvents == 3
\* Nullifier derivations recorded.
MaxDerivations == 3
\* Credentials the CredentialIssuer issues.
MaxIssued == 2
\* Proof references the CredentialIssuer stores.
MaxZKProofs == 1
\* Proofs in the input of a batchVerifyProofs call.
MaxBatch == 2

(***************************************************************************)
(* Values.                                                                 *)
(***************************************************************************)
\* Strings ethers.utils.isAddress accepts (not in lower case).
Addresses == {"0xAA"}
\* What a caller may pass as userAddress: an address, or a string that is
\* none.
AddressInputs == Addresses \cup {"bad"}
\* documentNumber values.
Docs == {"D1"}
\* expiryDate arguments of issueCredential; 0 stands for none given.
ExpiryInputs == {0, 1, 2}
\* Requirement sets, by their minAge.
Reqs == {18}
\* revokeCredential's reason argument.
Reasons == {"fraud"}
\* What an awaited verifier settles with.
Outcomes == {"true", "false", "throw"}

\* A second user's address.
OtherAddresses == {"0xBB"}

IsAddress(a) == a \in Addresses \cup OtherAddresses

ToLowerCase(a) ==
    CASE a = "0xAA" -> "0xaa"
      [] a = "0xBB" -> "0xbb"
      [] OTHER -> a

\* crypto.createHash('sha256') of a concatenation: an injective digest of
\* the concatenated parts.
Sha256(parts) == <<"sha256", parts>>

\* Map.set
MapSet(m, k, v) == [x \in DOMAIN m \cup {k} |-> IF x = k THEN v ELSE m[x]]

VARIABLES
    now,               \* Date.now(), in seconds
    artifacts,         \* VerificationService: circuitWasm, zkey and vkey are loaded
    verifierContract,  \* VerificationService.verifierContract is set
    credentials,       \* VerificationService.credentials: address -> credential
    proofCache,        \* VerificationService.proofCache: nullifier -> proof data
    proving,           \* generateProof calls suspended at groth16.fullProve
    verifying,         \* verifyProof calls suspended at an await
    successes,         \* nullifier -> number of verifyProof calls that returned success
    lastVerify,        \* the nullifier and result of the verifyProof call that returned last
    onChainValid,      \* how the last call of verifierContract.verifyProof settled
    lastRevoke,        \* what the last revokeCredential call returned
    batch              \* the batchVerifyProofs call: its input, results and position

vsVars == <<artifacts, verifierContract, credentials, proofCache, proving,
            verifying, successes, lastVerify, onChainValid, lastRevoke, batch>>

\* ZkKYCRegistry
VARIABLES
    admin,             \* address public admin
    trustedIssuers,    \* the addresses trustedIssuers maps to true
    kycStatus,         \* mapping(address => KYCStatus)
    nullifiers,        \* the nullifiers the mapping nullifiers maps to true
    events,            \* the events emitted, in order
    lastTx             \* the last transaction: its function and how it ended

regVars == <<admin, trustedIssuers, kycStatus, nullifiers, events, lastTx>>

\* The proof server
VARIABLES
    credentialsDB,     \* the Map credentialsDB
    answered,          \* per nullifier, the verify-proof requests answered success
    lastResponse       \* the last response sent: its route, status and error

srvVars == <<credentialsDB, answered, lastResponse>>

\* The nullifier derivations
VARIABLES
    derived            \* the derivations made: function, inputs and output

\* The CredentialIssuer
VARIABLES
    issuedCredentials, \* the Map issuedCredentials: credentialId -> record
    revokedCredentials,\* the Set revokedCredentials
    signing,           \* issueCredential calls awaiting signCredential
    lastReturn,        \* what the last verifyCredential, generateZKProof or
                       \* generateSelectiveDisclosure call returned or threw
    validBefore        \* the verifyCredential call before the last was for the
                       \* same credential and reported it valid

ciVars == <<issuedCredentials, revokedCredentials, signing, lastReturn,
            validBefore>>

\* The web application (App.jsx): the state of the App component. The
\* state variables userAddress, contract, network, credential and error
\* carry the prefix app.
VARIABLES
    appUserAddress,    \* useState(''): the connected address
    appContract,       \* useState(null): the contract object
    appNetwork,        \* useState('Not Connected')
    appCredential,     \* useState(null)
    isConnecting,      \* useState(false)
    appError,          \* useState('')
    connecting,        \* connectWallet calls suspended at an await
    listening,         \* an accountsChanged listener is registered
    lastEvent          \* the handler or continuation that ran last

appVars == <<appUserAddress, appContract, appNetwork, appCredential,
             isConnecting, appError, connecting, listening, lastEvent>>

vars == <<now, vsVars, regVars, srvVars, derived, ciVars, appVars>>

(***************************************************************************)
(* VerificationService                                                     *)
(***************************************************************************)
\* The default lifetime of a credential, in the clock's unit.
OneYear == 365 * 24 * 60 * 60

generateCredentialId(userAddress, documentNumber) ==
    Sha256(<<userAddress, documentNumber, now>>)

hashCredentialData(data) == Sha256(<<data>>)

\* Date.now() and Math.random() are read inside; rnd is the value
\* Math.random() returns.
generateNullifier(credentialId, requirements, rnd) ==
    Sha256(<<credentialId, requirements, now, rnd>>)

\* The addresses whose credential has this id (getCredentialById returns
\* the first in insertion order; ids of different addresses differ).
HoldersOf(credentialId) ==
    {a \in DOMAIN credentials : credentials[a].id = credentialId}

HasCredentialId(credentialId) == HoldersOf(credentialId) # {}

getCredentialById(credentialId) ==
    credentials[CHOOSE a \in HoldersOf(credentialId) : TRUE]

\* proof && publicSignals && publicSignals.length > 0
mockVerifyProof(wellFormed) == wellFormed

NoCall == [nullifier |-> <<>>, result |-> "none"]

\* No revokeCredential call has returned.
NoRevoke == [success |-> FALSE, error |-> "none", credentialId |-> <<>>,
             revokedAt |-> 0]

\* What batchVerifyProofs returns besides results.
BatchSummary(proofs, results) ==
    [success |-> \A i \in 1..Len(results) : results[i].success,
     total |-> Len(proofs),
     valid |-> Cardinality({i \in 1..Len(results) : results[i].success})]

\* No batchVerifyProofs call was made. slot is the slot of the verifyProof
\* call the batch awaits, 0 when that call has returned; summary is what
\* the call returned.
NoBatch == [pc |-> "idle", proofs |-> <<>>, results |-> <<>>, slot |-> 0,
            summary |-> BatchSummary(<<>>, <<>>)]

VSInit ==
    /\ artifacts = FALSE
    /\ verifierContract = FALSE
    /\ credentials = <<>>
    /\ proofCache = <<>>
    /\ proving = {}
    /\ verifying = {}
    /\ successes = <<>>
    /\ lastVerify = NoCall
    /\ onChainValid = "none"
    /\ lastRevoke = NoRevoke
    /\ batch = NoBatch

\* initialize(config) with a verifier contract address and ABI.
Initialize ==
    /\ verifierContract' = TRUE
    /\ UNCHANGED <<now, artifacts, credentials, proofCache, proving, verifying,
                   successes, lastVerify>>
    /\ UNCHANGED <<onChainValid, lastRevoke, batch>>
    /\ UNCHANGED <<regVars, srvVars, derived, ciVars, appVars>>

Tick ==
    /\ now < MaxTime
    /\ now' = now + 1
    /\ UNCHANGED <<vsVars, regVars, srvVars, derived, ciVars, appVars>>

\* issueCredential has no await: it runs to its end. With an invalid
\* address it throws before it changes anything.
issueCredential(userAddress, documentNumber, expiryDate) ==
    /\ IF ~IsAddress(userAddress)
       THEN UNCHANGED credentials
       ELSE LET credentialId == generateCredentialId(userAddress, documentNumber)
                credential ==
                    [id |-> credentialId,
                     userAddress |-> ToLowerCase(userAddress),
                     issuedAt |-> now,
                     expiryDate |-> IF expiryDate # 0 THEN expiryDate
                                    ELSE now + OneYear,
                     credentialHash |-> hashCredentialData(documentNumber),
                     revoked |-> FALSE,
                     revocationReason |-> "",
                     revokedAt |-> 0]
            IN credentials' =
                   MapSet(credentials, ToLowerCase(userAddress), credential)
    /\ UNCHANGED <<now, artifacts, verifierContract, proofCache, proving,
                   verifying, successes, lastVerify>>
    /\ UNCHANGED <<onChainValid, lastRevoke, batch>>
    /\ UNCHANGED <<regVars, srvVars, derived, ciVars, appVars>>

\* The credential's status as the specification's isValid sees it.
CredentialStatus(credentialId) ==
    IF ~HasCredentialId(credentialId) THEN "unknown"
    ELSE LET c == getCredentialById(credentialId)
         IN IF c.revoked THEN "revoked"
            ELSE IF c.expiryDate <= now THEN "expired"
            ELSE "valid"

\* The proofCache entry of line 164 (verifiedAt and invalidated are absent
\* from the program's entry until they are set).
ProofData(credentialId, requirements) ==
    [credentialId |-> credentialId,
     generatedAt |-> now,
     requirements |-> requirements,
     verified |-> FALSE,
     verifiedAt |-> 0,
     invalidated |-> FALSE]

UsedNullifiers == DOMAIN proofCache \cup {g.nullifier : g \in proving}

\* The value Math.random() returns: only its being different from the
\* earlier draws matters, so the draws are numbered.
MathRandom(credentialId, requirements) ==
    CHOOSE r \in 1..(MaxProofs + 1) :
        /\ generateNullifier(credentialId, requirements, r) \notin UsedNullifiers
        /\ \A q \in 1..(r - 1) :
              generateNullifier(credentialId, requirements, q) \in UsedNullifiers

\* generateProof up to its await on groth16.fullProve, or to its end when
\* no circuit is loaded. It throws 'Credential not found' or 'Credential
\* expired' before it changes anything.
generateProof(credentialId, requirements) ==
    /\ Cardinality(UsedNullifiers) < MaxProofs
    /\ LET nullifier == generateNullifier(credentialId, requirements,
                                          MathRandom(credentialId, requirements))
       IN IF ~HasCredentialId(credentialId)
          THEN UNCHANGED <<proofCache, proving>>
          ELSE IF getCredentialById(credentialId).expiryDate < now
          THEN UNCHANGED <<proofCache, proving>>
          ELSE IF artifacts
          THEN /\ proving' = proving \cup
                      {[credentialId |-> credentialId,
                        requirements |-> requirements,
                        nullifier |-> nullifier]}
               /\ UNCHANGED proofCache
          ELSE /\ proofCache' = MapSet(proofCache, nullifier,
                      ProofData(credentialId, requirements))
               /\ UNCHANGED proving
    /\ UNCHANGED <<now, artifacts, verifierContract, credentials, verifying,
                   successes, lastVerify>>
    /\ UNCHANGED <<onChainValid, lastRevoke, batch>>
    /\ UNCHANGED <<regVars, srvVars, derived, ciVars, appVars>>

\* groth16.fullProve settles: generateProof stores the proof reference and
\* returns, or rejects with the prover's error.
fullProveSettles(g, ok) ==
    /\ g \in proving
    /\ proving' = proving \ {g}
    /\ IF ok
       THEN proofCache' = MapSet(proofCache, g.nullifier,
                                 ProofData(g.credentialId, g.requirements))
       ELSE UNCHANGED proofCache
    /\ UNCHANGED <<now, artifacts, verifierContract, credentials, verifying,
                   successes, lastVerify>>
    /\ UNCHANGED <<onChainValid, lastRevoke, batch>>
    /\ UNCHANGED <<regVars, srvVars, derived, ciVars, appVars>>

\* revokeCredential that also resets the verified flag of the proofs it
\* invalidates.
revokeCredentialUnverifying(userAddress, reason) ==
    LET address == ToLowerCase(userAddress)
    IN /\ IF address \in DOMAIN credentials
          THEN LET credential == [credentials[address] EXCEPT
                                     !.revoked = TRUE,
                                     !.revocationReason = reason,
                                     !.revokedAt = now]
               IN /\ credentials' = MapSet(credentials, address, credential)
                  /\ proofCache' =
                        [n \in DOMAIN proofCache |->
                            IF proofCache[n].credentialId = credential.id
                            THEN [proofCache[n] EXCEPT !.invalidated = TRUE,
                                                       !.verified = FALSE]
                            ELSE proofCache[n]]
                  /\ lastRevoke' = [success |-> TRUE, error |-> "",
                                    credentialId |-> credential.id,
                                    revokedAt |-> credential.revokedAt]
          ELSE /\ lastRevoke' = [success |-> FALSE,
                                 error |-> "Credential not found",
                                 credentialId |-> <<>>, revokedAt |-> 0]
               /\ UNCHANGED <<credentials, proofCache>>
       /\ UNCHANGED <<now, artifacts, verifierContract, proving, verifying,
                      successes, lastVerify>>
    /\ UNCHANGED <<onChainValid, batch>>
    /\ UNCHANGED <<regVars, srvVars, derived, ciVars, appVars>>

\* revokeCredential has no await: it runs to its end and returns.
revokeCredential(userAddress, reason) ==
    LET address == ToLowerCase(userAddress)
    IN /\ IF address \in DOMAIN credentials
          THEN LET credential == [credentials[address] EXCEPT
                                     !.revoked = TRUE,
                                     !.revocationReason = reason,
                                     !.revokedAt = now]
               IN /\ credentials' = MapSet(credentials, address, credential)
                  /\ proofCache' =
                        [n \in DOMAIN proofCache |->
                            IF proofCache[n].credentialId = credential.id
                            THEN [proofCache[n] EXCEPT !.invalidated = TRUE]
                            ELSE proofCache[n]]
                  /\ lastRevoke' = [success |-> TRUE, error |-> "",
                                    credentialId |-> credential.id,
                                    revokedAt |-> credential.revokedAt]
          ELSE /\ lastRevoke' = [success |-> FALSE,
                                 error |-> "Credential not found",
                                 credentialId |-> <<>>, revokedAt |-> 0]
               /\ UNCHANGED <<credentials, proofCache>>
       /\ UNCHANGED <<now, artifacts, verifierContract, proving, verifying,
                      successes, lastVerify>>
    /\ UNCHANGED <<onChainValid, batch>>
    /\ UNCHANGED <<regVars, srvVars, derived, ciVars, appVars>>

SuccessCount(nullifier) ==
    IF nullifier \in DOMAIN successes THEN successes[nullifier] ELSE 0

\* The status of the credential a nullifier's proof was generated from.
TargetStatus(nullifier) ==
    IF nullifier \in DOMAIN proofCache
    THEN CredentialStatus(proofCache[nullifier].credentialId)
    ELSE "unknown"

\* A verifyProof call for nullifier returns result.
Returns(nullifier, result) ==
    /\ lastVerify' = [nullifier |-> nullifier, result |-> result]
    /\ successes' = IF result = "success"
                    THEN MapSet(successes, nullifier, SuccessCount(nullifier) + 1)
                    ELSE successes

\* Finish with the marking of lines 221-224 not guarded by isValid.
FinishMarksUnchecked(nullifier, cached, isValid) ==
    /\ IF cached
       THEN proofCache' = [proofCache EXCEPT
                              ![nullifier].verified = TRUE,
                              ![nullifier].verifiedAt = now]
       ELSE UNCHANGED proofCache
    /\ Returns(nullifier, IF isValid THEN "success" ELSE "invalid")

\* Finish without the marking of lines 221-224.
FinishUnmarked(nullifier, cached, isValid) ==
    /\ UNCHANGED proofCache
    /\ Returns(nullifier, IF isValid THEN "success" ELSE "invalid")

\* Lines 221-232 of verifyProof: the nullifier is marked when the proof
\* is valid and a cache entry was found at line 187 (cachedProof is the
\* entry itself, not a copy), and the result is returned.
Finish(nullifier, cached, isValid) ==
    /\ IF isValid /\ cached
       THEN proofCache' = [proofCache EXCEPT
                              ![nullifier].verified = TRUE,
                              ![nullifier].verifiedAt = now]
       ELSE UNCHANGED proofCache
    /\ Returns(nullifier, IF isValid THEN "success" ELSE "invalid")

\* The calls in flight each have a slot; a new call takes the first free.
FreeSlot == CHOOSE i \in 1..MaxCalls : \A c \in verifying : c.slot # i

\* verifyProof whose replay rejection refreshes the entry's verifiedAt.
verifyProofTouching(nullifier, wellFormed) ==
    /\ Cardinality(verifying) < MaxCalls
    /\ SuccessCount(nullifier) < MaxCalls
    /\ LET cached == nullifier \in DOMAIN proofCache
       IN IF cached /\ proofCache[nullifier].verified
          THEN /\ Returns(nullifier, "Proof already used")
               /\ proofCache' = [proofCache EXCEPT
                                     ![nullifier].verifiedAt = now]
               /\ UNCHANGED verifying
          ELSE IF artifacts /\ verifierContract
          THEN /\ verifying' = verifying \cup
                      {[slot |-> FreeSlot,
                        nullifier |-> nullifier,
                        cached |-> cached,
                        pc |-> "groth16.verify"]}
               /\ UNCHANGED <<proofCache, successes, lastVerify>>
          ELSE /\ Finish(nullifier, cached, mockVerifyProof(wellFormed))
               /\ UNCHANGED verifying
    /\ UNCHANGED <<now, artifacts, verifierContract, credentials, proving>>
    /\ UNCHANGED <<onChainValid, lastRevoke>>
    /\ UNCHANGED <<regVars, srvVars, derived, ciVars, appVars>>

\* verifyProof that verifies the proof before it looks the nullifier up.
verifyProofVerifyingFirst(nullifier, wellFormed) ==
    /\ Cardinality(verifying) < MaxCalls
    /\ SuccessCount(nullifier) < MaxCalls
    /\ LET cached == nullifier \in DOMAIN proofCache
       IN IF ~(artifacts /\ verifierContract) /\ ~mockVerifyProof(wellFormed)
          THEN /\ Finish(nullifier, cached, FALSE)
               /\ UNCHANGED verifying
          ELSE IF cached /\ proofCache[nullifier].verified
          THEN /\ Returns(nullifier, "Proof already used")
               /\ UNCHANGED <<proofCache, verifying>>
          ELSE IF artifacts /\ verifierContract
          THEN /\ verifying' = verifying \cup
                      {[slot |-> FreeSlot,
                        nullifier |-> nullifier,
                        cached |-> cached,
                        pc |-> "groth16.verify"]}
               /\ UNCHANGED <<proofCache, successes, lastVerify>>
          ELSE /\ Finish(nullifier, cached, mockVerifyProof(wellFormed))
               /\ UNCHANGED verifying
    /\ UNCHANGED <<now, artifacts, verifierContract, credentials, proving>>
    /\ UNCHANGED <<onChainValid, lastRevoke>>
    /\ UNCHANGED <<regVars, srvVars, derived, ciVars, appVars>>

\* verifyProof up to its first await (groth16.verify), or to its end when
\* it returns early or verifies with mockVerifyProof. wellFormed: proof and
\* publicSignals are given and publicSignals is not empty.
verifyProof(nullifier, wellFormed) ==
    /\ Cardinality(verifying) < MaxCalls
    /\ SuccessCount(nullifier) < MaxCalls
    /\ LET cached == nullifier \in DOMAIN proofCache
       IN IF cached /\ proofCache[nullifier].verified
          THEN /\ Returns(nullifier, "Proof already used")
               /\ UNCHANGED <<proofCache, verifying>>
          ELSE IF artifacts /\ verifierContract
          THEN /\ verifying' = verifying \cup
                      {[slot |-> FreeSlot,
                        nullifier |-> nullifier,
                        cached |-> cached,
                        pc |-> "groth16.verify"]}
               /\ UNCHANGED <<proofCache, successes, lastVerify>>
          ELSE /\ Finish(nullifier, cached, mockVerifyProof(wellFormed))
               /\ UNCHANGED verifying
    /\ UNCHANGED <<now, artifacts, verifierContract, credentials, proving>>
    /\ UNCHANGED <<onChainValid, lastRevoke>>
    /\ UNCHANGED <<regVars, srvVars, derived, ciVars, appVars>>

\* groth16.verify settles with true or false, or throws (verifyProof then
\* rejects). After true the on-chain verifier is called.
groth16Settles(c, outcome) ==
    /\ c \in verifying
    /\ c.pc = "groth16.verify"
    /\ CASE outcome = "throw" ->
              /\ verifying' = verifying \ {c}
              /\ Returns(c.nullifier, "exception")
              /\ UNCHANGED proofCache
         [] outcome = "false" ->
              /\ verifying' = verifying \ {c}
              /\ Finish(c.nullifier, c.cached, FALSE)
         [] outcome = "true" ->
              /\ verifying' = (verifying \ {c}) \cup
                     {[c EXCEPT !.pc = "verifierContract.verifyProof"]}
              /\ UNCHANGED <<proofCache, successes, lastVerify>>
    /\ UNCHANGED <<now, artifacts, verifierContract, credentials, proving>>
    /\ UNCHANGED <<onChainValid, lastRevoke>>
    /\ UNCHANGED <<regVars, srvVars, derived, ciVars, appVars>>

\* The on-chain verifier settles: its answer replaces isValid; when it
\* throws, the error is logged and isValid keeps groth16.verify's true.
onChainSettles(c, outcome) ==
    /\ c \in verifying
    /\ c.pc = "verifierContract.verifyProof"
    /\ verifying' = verifying \ {c}
    /\ onChainValid' = outcome
    /\ Finish(c.nullifier, c.cached, outcome # "false")
    /\ UNCHANGED <<now, artifacts, verifierContract, credentials, proving>>
    /\ UNCHANGED lastRevoke
    /\ UNCHANGED <<regVars, srvVars, derived, ciVars, appVars>>

\* A credentialId nobody was issued, and a nullifier no generateProof
\* returned.
UnknownCredentialId == Sha256(<<"", "", 0>>)

ForgedNullifier == Sha256(<<UnknownCredentialId, 0, 0, 0>>)

\* The credential ids a caller may pass: those issued, and one that was not.
KnownCredentialIds ==
    {credentials[a].id : a \in DOMAIN credentials}
        \cup {proofCache[n].credentialId : n \in DOMAIN proofCache}
        \cup {UnknownCredentialId}

\* The nullifiers a caller may submit: those generateProof returned, and
\* one it did not.
KnownNullifiers == DOMAIN proofCache \cup {ForgedNullifier}

\* verifyProof called by a client, not by batchVerifyProofs, and the
\* verifiers of such a call settling.
ClientVerifyProof(nullifier, wellFormed) ==
    /\ verifyProof(nullifier, wellFormed)
    /\ UNCHANGED batch

ClientGroth16Settles(c, outcome) ==
    /\ c.slot # batch.slot
    /\ groth16Settles(c, outcome)
    /\ UNCHANGED batch

ClientOnChainSettles(c, outcome) ==
    /\ c.slot # batch.slot
    /\ onChainSettles(c, outcome)
    /\ UNCHANGED batch

\* The entry batchVerifyProofs pushes for a verifyProof call that returned
\* result (lines 244-247), or threw (lines 249-253).
BatchResult(proofId, result) ==
    [success |-> result = "success",
     error |-> IF result \in {"Proof already used", "exception"}
               THEN result ELSE "",
     proofId |-> proofId]

\* The inputs of batchVerifyProofs: up to MaxBatch elements, each a
\* proofData object with a nullifier the caller may know, or null (given
\* is FALSE).
BatchInputs ==
    UNION {[1..k -> [given : {TRUE}, nullifier : KnownNullifiers,
                     wellFormed : BOOLEAN]
                    \cup {[given |-> FALSE, nullifier |-> <<>>,
                           wellFormed |-> FALSE]}] :
              k \in 0..MaxBatch}

\* verifyProof (line 184) throws a TypeError when it destructures a
\* proofData that is null; the catch block of the batch reads
\* proofData.nullifier (line 252) and throws another, which nothing
\* catches: batchVerifyProofs rejects.
BatchRejects(b) ==
    /\ batch' = [b EXCEPT !.pc = "rejected"]
    /\ UNCHANGED <<now, artifacts, verifierContract, credentials, proofCache,
                   proving, verifying, successes, lastVerify>>
    /\ UNCHANGED <<onChainValid, lastRevoke>>
    /\ UNCHANGED <<regVars, srvVars, derived, ciVars, appVars>>

\* Line 243: the batch b calls verifyProof for its next proof and awaits
\* it. The call runs to its end, and its result is pushed when the batch
\* resumes, or to its first await.
BatchCalls(b) ==
    LET proofData == b.proofs[Len(b.results) + 1]
    IN IF ~proofData.given
       THEN BatchRejects(b)
       ELSE /\ verifyProof(proofData.nullifier, proofData.wellFormed)
            /\ batch' =
                   IF verifying' = verifying
                   THEN [b EXCEPT
                            !.results = Append(b.results,
                                BatchResult(proofData.nullifier,
                                            lastVerify'.result)),
                            !.slot = 0]
                   ELSE [b EXCEPT !.slot = FreeSlot]

\* Lines 257-262: the batch returns.
BatchReturns(b) ==
    /\ batch' = [b EXCEPT !.pc = "returned",
                          !.summary = BatchSummary(b.proofs, b.results)]
    /\ UNCHANGED <<now, artifacts, verifierContract, credentials, proofCache,
                   proving, verifying, successes, lastVerify>>
    /\ UNCHANGED <<onChainValid, lastRevoke>>
    /\ UNCHANGED <<regVars, srvVars, derived, ciVars, appVars>>

\* batchVerifyProofs up to its first await, or to its end when proofs is
\* empty. One call is made.
batchVerifyProofs(proofs) ==
    /\ batch.pc = "idle"
    /\ LET b == [NoBatch EXCEPT !.pc = "await", !.proofs = proofs]
       IN IF proofs = <<>> THEN BatchReturns(b) ELSE BatchCalls(b)

\* The batch resumes after the verifyProof call it awaited returned: it
\* goes on to the next proof, or returns after the last.
batchVerifyProofsResumes ==
    /\ batch.pc = "await"
    /\ batch.slot = 0
    /\ IF Len(batch.results) = Len(batch.proofs)
       THEN BatchReturns(batch)
       ELSE BatchCalls(batch)

\* groth16.verify of the call the batch awaits settles: after true the
\* call goes on to the on-chain verifier, otherwise it returns or throws
\* and its result is pushed when the batch resumes.
batchGroth16Settles(c, outcome) ==
    /\ c.slot = batch.slot
    /\ groth16Settles(c, outcome)
    /\ batch' =
           IF outcome = "true" THEN batch
           ELSE [batch EXCEPT
                    !.results = Append(batch.results,
                        BatchResult(c.nullifier, lastVerify'.result)),
                    !.slot = 0]

\* The on-chain verifier of the call the batch awaits settles: the call
\* returns.
batchOnChainSettles(c, outcome) ==
    /\ c.slot = batch.slot
    /\ onChainSettles(c, outcome)
    /\ batch' = [batch EXCEPT
                    !.results = Append(batch.results,
                        BatchResult(c.nullifier, lastVerify'.result)),
                    !.slot = 0]

\* The operations that run to their end or to their first await.
VSCalls ==
    \/ Tick
    \/ Initialize
    \/ \E a \in AddressInputs, d \in Docs, e \in ExpiryInputs :
          issueCredential(a, d, e)
    \/ \E a \in Addresses, r \in Reasons : revokeCredential(a, r)
    \/ \E id \in KnownCredentialIds, r \in Reqs : generateProof(id, r)
    \/ \E n \in KnownNullifiers, wf \in BOOLEAN : ClientVerifyProof(n, wf)

\* The service with two users: issuance, proofs and revocation, within
\* one instant of the clock.
VSRevokeNext ==
    \/ \E a \in Addresses \cup OtherAddresses, d \in Docs :
          issueCredential(a, d, 0)
    \/ \E a \in AddressInputs \cup OtherAddresses, r \in Reasons :
          revokeCredential(a, r)
    \/ \E id \in KnownCredentialIds, r \in Reqs : generateProof(id, r)
    \/ \E n \in KnownNullifiers, wf \in BOOLEAN : ClientVerifyProof(n, wf)

\* The service with batchVerifyProofs calls, within one instant of the
\* clock.
VSBatchNext ==
    \/ Initialize
    \/ \E a \in Addresses, d \in Docs : issueCredential(a, d, 0)
    \/ \E id \in KnownCredentialIds, r \in Reqs : generateProof(id, r)
    \/ \E g \in proving, ok \in BOOLEAN : fullProveSettles(g, ok)
    \/ \E proofs \in BatchInputs : batchVerifyProofs(proofs)
    \/ batchVerifyProofsResumes
    \/ \E c \in verifying, o \in Outcomes : batchGroth16Settles(c, o)
    \/ \E c \in verifying, o \in Outcomes : batchOnChainSettles(c, o)

\* The awaited provers and verifiers settling.
VSSettles ==
    \/ \E g \in proving, ok \in BOOLEAN : fullProveSettles(g, ok)
    \/ \E c \in verifying, o \in Outcomes : ClientGroth16Settles(c, o)
    \/ \E c \in verifying, o \in Outcomes : ClientOnChainSettles(c, o)

(***************************************************************************)
(* ZkKYCRegistry. A transaction runs to its end or reverts; a reverted     *)
(* transaction changes nothing but lastTx, which is not contract state.    *)
(* block.timestamp is now.                                                 *)
(***************************************************************************)
Deployer == "deployer"

\* msg.sender of a transaction.
Senders == {Deployer, "issuer"}
\* The issuer argument of addTrustedIssuer and removeTrustedIssuer.
IssuerArgs == {"issuer"}
\* The user argument of registerKYC.
KYCUsers == {"alice"}
\* bytes32 arguments; 0 is bytes32(0).
Bytes32Args == {0, 1}
\* proof.length of the proof argument.
ProofLengths == {0, 1}

\* The value of a mapping(address => KYCStatus) entry that was never set.
ZeroStatus == [userAddress |-> "0x0", verifiedAt |-> 0, expiryDate |-> 0,
               credentialRoot |-> 0, isActive |-> FALSE]

RegInit ==
    /\ admin = Deployer
    /\ trustedIssuers = {}
    /\ kycStatus = [u \in KYCUsers |-> ZeroStatus]
    /\ nullifiers = {}
    /\ events = <<>>
    /\ lastTx = [fn |-> "constructor", result |-> "ok"]

Tx(fn, result) == [fn |-> fn, result |-> result]

Reverts(fn, reason) ==
    /\ lastTx' = Tx(fn, reason)
    /\ UNCHANGED <<admin, trustedIssuers, kycStatus, nullifiers, events>>

\* onlyAdmin that also lets a trusted issuer through.
onlyAdminOrIssuer(sender) == sender = admin \/ sender \in trustedIssuers

onlyAdmin(sender) == sender = admin

\* onlyTrustedIssuer that also lets the admin through.
onlyTrustedIssuerOrAdmin(sender) == sender \in trustedIssuers \/ sender = admin

onlyTrustedIssuer(sender) == sender \in trustedIssuers

\* addTrustedIssuer that rejects an issuer who is trusted already.
addTrustedIssuerOnce(sender, issuer) ==
    /\ IF ~onlyAdmin(sender)
       THEN Reverts("addTrustedIssuer", "Only admin")
       ELSE IF issuer \in trustedIssuers
       THEN Reverts("addTrustedIssuer", "Already trusted")
       ELSE /\ Len(events) < MaxEvents
            /\ trustedIssuers' = trustedIssuers \cup {issuer}
            /\ events' = Append(events, <<"IssuerAdded", issuer>>)
            /\ lastTx' = Tx("addTrustedIssuer", "ok")
            /\ UNCHANGED <<admin, kycStatus, nullifiers>>
    /\ UNCHANGED now
    /\ UNCHANGED <<vsVars, srvVars, derived, ciVars, appVars>>

\* addTrustedIssuer that hands the contract over to the issuer it adds.
addTrustedIssuerHandingOver(sender, issuer) ==
    /\ IF ~onlyAdmin(sender)
       THEN Reverts("addTrustedIssuer", "Only admin")
       ELSE /\ Len(events) < MaxEvents
            /\ trustedIssuers' = trustedIssuers \cup {issuer}
            /\ admin' = issuer
            /\ events' = Append(events, <<"IssuerAdded", issuer>>)
            /\ lastTx' = Tx("addTrustedIssuer", "ok")
            /\ UNCHANGED <<kycStatus, nullifiers>>
    /\ UNCHANGED now
    /\ UNCHANGED <<vsVars, srvVars, derived, ciVars, appVars>>

addTrustedIssuer(sender, issuer) ==
    /\ IF ~onlyAdmin(sender)
       THEN Reverts("addTrustedIssuer", "Only admin")
       ELSE /\ Len(events) < MaxEvents
            /\ trustedIssuers' = trustedIssuers \cup {issuer}
            /\ events' = Append(events, <<"IssuerAdded", issuer>>)
            /\ lastTx' = Tx("addTrustedIssuer", "ok")
            /\ UNCHANGED <<admin, kycStatus, nullifiers>>
    /\ UNCHANGED now
    /\ UNCHANGED <<vsVars, srvVars, derived, ciVars, appVars>>

\* removeTrustedIssuer that also deactivates every KYC status.
removeTrustedIssuerDeactivating(sender, issuer) ==
    /\ IF ~onlyAdmin(sender)
       THEN Reverts("removeTrustedIssuer", "Only admin")
       ELSE /\ Len(events) < MaxEvents
            /\ trustedIssuers' = trustedIssuers \ {issuer}
            /\ kycStatus' = [u \in DOMAIN kycStatus |->
                                [kycStatus[u] EXCEPT !.isActive = FALSE]]
            /\ events' = Append(events, <<"IssuerRemoved", issuer>>)
            /\ lastTx' = Tx("removeTrustedIssuer", "ok")
            /\ UNCHANGED <<admin, nullifiers>>
    /\ UNCHANGED now
    /\ UNCHANGED <<vsVars, srvVars, derived, ciVars, appVars>>

removeTrustedIssuer(sender, issuer) ==
    /\ IF ~onlyAdmin(sender)
       THEN Reverts("removeTrustedIssuer", "Only admin")
       ELSE /\ Len(events) < MaxEvents
            /\ trustedIssuers' = trustedIssuers \ {issuer}
            /\ events' = Append(events, <<"IssuerRemoved", issuer>>)
            /\ lastTx' = Tx("removeTrustedIssuer", "ok")
            /\ UNCHANGED <<admin, kycStatus, nullifiers>>
    /\ UNCHANGED now
    /\ UNCHANGED <<vsVars, srvVars, derived, ciVars, appVars>>

\* registerKYC without line 79, emit KYCVerified.
registerKYCSilent(sender, user, expiryDate, credentialRoot) ==
    /\ IF ~onlyTrustedIssuer(sender)
       THEN Reverts("registerKYC", "Not trusted issuer")
       ELSE /\ Len(events) < MaxEvents
            /\ kycStatus' = [kycStatus EXCEPT ![user] =
                                [userAddress |-> user,
                                 verifiedAt |-> now,
                                 expiryDate |-> expiryDate,
                                 credentialRoot |-> credentialRoot,
                                 isActive |-> TRUE]]
            /\ lastTx' = Tx("registerKYC", "ok")
            /\ UNCHANGED <<admin, trustedIssuers, nullifiers, events>>
    /\ UNCHANGED now
    /\ UNCHANGED <<vsVars, srvVars, derived, ciVars, appVars>>

registerKYC(sender, user, expiryDate, credentialRoot) ==
    /\ IF ~onlyTrustedIssuer(sender)
       THEN Reverts("registerKYC", "Not trusted issuer")
       ELSE /\ Len(events) < MaxEvents
            /\ kycStatus' = [kycStatus EXCEPT ![user] =
                                [userAddress |-> user,
                                 verifiedAt |-> now,
                                 expiryDate |-> expiryDate,
                                 credentialRoot |-> credentialRoot,
                                 isActive |-> TRUE]]
            /\ events' = Append(events, <<"KYCVerified", user, credentialRoot>>)
            /\ lastTx' = Tx("registerKYC", "ok")
            /\ UNCHANGED <<admin, trustedIssuers, nullifiers>>
    /\ UNCHANGED now
    /\ UNCHANGED <<vsVars, srvVars, derived, ciVars, appVars>>

\* The contract's internal verifyZKProof placeholder.
verifyZKProof(proofLength, nullifier, credentialRoot) ==
    proofLength > 0 /\ nullifier # 0 /\ credentialRoot # 0

\* verifyProof without line 98, nullifiers[nullifier] = true.
RegVerifyProofUnrecorded(sender, proofLength, nullifier, credentialRoot) ==
    /\ IF nullifier \in nullifiers
       THEN Reverts("verifyProof", "Proof already used")
       ELSE IF ~verifyZKProof(proofLength, nullifier, credentialRoot)
       THEN Reverts("verifyProof", "Invalid proof")
       ELSE /\ Len(events) < MaxEvents
            /\ events' = Append(events, <<"ProofVerified", sender, nullifier>>)
            /\ lastTx' = Tx("verifyProof", "true")
            /\ UNCHANGED <<admin, trustedIssuers, kycStatus, nullifiers>>
    /\ UNCHANGED now
    /\ UNCHANGED <<vsVars, srvVars, derived, ciVars, appVars>>

\* verifyProof that keeps the last nullifier only.
RegVerifyProofLastOnly(sender, proofLength, nullifier, credentialRoot) ==
    /\ IF nullifier \in nullifiers
       THEN Reverts("verifyProof", "Proof already used")
       ELSE IF ~verifyZKProof(proofLength, nullifier, credentialRoot)
       THEN Reverts("verifyProof", "Invalid proof")
       ELSE /\ Len(events) < MaxEvents
            /\ nullifiers' = {nullifier}
            /\ events' = Append(events, <<"ProofVerified", sender, nullifier>>)
            /\ lastTx' = Tx("verifyProof", "true")
            /\ UNCHANGED <<admin, trustedIssuers, kycStatus>>
    /\ UNCHANGED now
    /\ UNCHANGED <<vsVars, srvVars, derived, ciVars, appVars>>

RegVerifyProof(sender, proofLength, nullifier, credentialRoot) ==
    /\ IF nullifier \in nullifiers
       THEN Reverts("verifyProof", "Proof already used")
       ELSE IF ~verifyZKProof(proofLength, nullifier, credentialRoot)
       THEN Reverts("verifyProof", "Invalid proof")
       ELSE /\ Len(events) < MaxEvents
            /\ nullifiers' = nullifiers \cup {nullifier}
            /\ events' = Append(events, <<"ProofVerified", sender, nullifier>>)
            /\ lastTx' = Tx("verifyProof", "true")
            /\ UNCHANGED <<admin, trustedIssuers, kycStatus>>
    /\ UNCHANGED now
    /\ UNCHANGED <<vsVars, srvVars, derived, ciVars, appVars>>

\* hasValidKYC with the expiry instant still counted as valid.
hasValidKYCInclusive(user) ==
    LET status == kycStatus[user]
    IN status.isActive /\ status.expiryDate >= now

\* hasValidKYC that reads the active flag only.
hasValidKYCNoExpiry(user) == kycStatus[user].isActive

hasValidKYC(user) ==
    LET status == kycStatus[user]
    IN status.isActive /\ status.expiryDate > now

\* A call of the view function hasValidKYC: it returns and writes nothing.
CallHasValidKYC(user) ==
    /\ lastTx' = Tx("hasValidKYC", IF hasValidKYC(user) THEN "true" ELSE "false")
    /\ UNCHANGED <<admin, trustedIssuers, kycStatus, nullifiers, events>>
    /\ UNCHANGED now
    /\ UNCHANGED <<vsVars, srvVars, derived, ciVars, appVars>>

RegNext ==
    \/ Tick
    \/ \E s \in Senders, i \in IssuerArgs : addTrustedIssuer(s, i)
    \/ \E s \in Senders, i \in IssuerArgs : removeTrustedIssuer(s, i)
    \/ \E s \in Senders, u \in KYCUsers, e \in ExpiryInputs, r \in Bytes32Args :
          registerKYC(s, u, e, r)
    \/ \E s \in Senders, l \in ProofLengths, n \in Bytes32Args \cup {2},
          r \in Bytes32Args :
          RegVerifyProof(s, l, n, r)
    \/ \E u \in KYCUsers : CallHasValidKYC(u)

(***************************************************************************)
(* The proof server. Each handler has one await, on a mock that settles    *)
(* at once and reads nothing the other handlers write: generate-proof      *)
(* writes credentialsDB after its await and verify-proof reads it before,  *)
(* so a handler is one step.                                               *)
(***************************************************************************)
\* userId values of request bodies.
UserIds == {<<"str", "u1">>}
\* verificationData.timestamp values of request bodies.
Timestamps == {1, 2}

\* generateNullifier(userId, timestamp), which proofServer.js calls and
\* does not define: a deterministic digest of its arguments.
ServerGenerateNullifier(userId, timestamp) == Sha256(<<userId, timestamp>>)

\* The nullifier values of verify-proof request bodies.
ServerNullifiers ==
    {ServerGenerateNullifier(u, t) : u \in UserIds, t \in Timestamps}
        \cup UserIds

\* proof && publicSignals && publicSignals.length > 0
ServerVerifyZKProof(wellFormed) == wellFormed

SrvInit ==
    /\ credentialsDB = <<>>
    /\ answered = <<>>
    /\ lastResponse = [route |-> "none", status |-> 0, error |-> ""]

Responds(route, status, error) ==
    lastResponse' = [route |-> route, status |-> status, error |-> error]

\* POST /api/generate-proof. complete: the body has circuitInputs and
\* verificationData (without them the handler throws and answers 500).
\* A field a credentialsDB entry does not have is 0.
PostGenerateProof(userId, timestamp, complete) ==
    /\ IF ~complete
       THEN /\ Responds("generate-proof", 500, "TypeError")
            /\ UNCHANGED credentialsDB
       ELSE LET nullifier == ServerGenerateNullifier(userId, timestamp)
            IN /\ credentialsDB' = MapSet(credentialsDB, nullifier,
                      [userId |-> userId,
                       verifiedAt |-> now,
                       issuedAt |-> 0,
                       expiry |-> now + OneYear])
               /\ Responds("generate-proof", 200, "")
    /\ UNCHANGED <<now, answered>>
    /\ UNCHANGED <<vsVars, regVars, derived, ciVars, appVars>>

AnsweredCount(nullifier) ==
    IF nullifier \in DOMAIN answered THEN answered[nullifier] ELSE 0

\* POST /api/verify-proof
PostVerifyProof(nullifier, wellFormed) ==
    /\ AnsweredCount(nullifier) < MaxCalls
    /\ IF nullifier \in DOMAIN credentialsDB
       THEN /\ Responds("verify-proof", 400, "Proof already used")
            /\ UNCHANGED answered
       ELSE IF ServerVerifyZKProof(wellFormed)
       THEN /\ Responds("verify-proof", 200, "")
            /\ answered' = MapSet(answered, nullifier,
                                   AnsweredCount(nullifier) + 1)
       ELSE /\ Responds("verify-proof", 400, "Invalid proof")
            /\ UNCHANGED answered
    /\ UNCHANGED <<now, credentialsDB>>
    /\ UNCHANGED <<vsVars, regVars, derived, ciVars, appVars>>

\* POST /api/issue-credential. The route answers every request that has
\* credentialData; without it the handler throws and sends no response.
PostIssueCredential(userId, expiry, hasData) ==
    /\ IF ~hasData
       THEN UNCHANGED <<credentialsDB, lastResponse>>
       ELSE /\ credentialsDB' = MapSet(credentialsDB, userId,
                   [userId |-> userId,
                    verifiedAt |-> 0,
                    issuedAt |-> now,
                    expiry |-> expiry])
            /\ Responds("issue-credential", 200, "")
    /\ UNCHANGED <<now, answered>>
    /\ UNCHANGED <<vsVars, regVars, derived, ciVars, appVars>>

SrvNext ==
    \/ Tick
    \/ \E u \in UserIds, t \in Timestamps, c \in BOOLEAN :
          PostGenerateProof(u, t, c)
    \/ \E n \in ServerNullifiers, wf \in BOOLEAN : PostVerifyProof(n, wf)
    \/ \E u \in UserIds, e \in ExpiryInputs, d \in BOOLEAN :
          PostIssueCredential(u, e, d)

(***************************************************************************)
(* The nullifier derivations: VerificationService.generateNullifier,       *)
(* CredentialIssuer.generateNullifier and generateNullifier of             *)
(* utils/zkProofs.js. Strings are sequences of character codes.            *)
(***************************************************************************)
\* Values Math.random() may return.
RandomValues == {1, 2}
\* Credential ids passed to the derivations.
SomeCredentialIds == {Sha256(<<"0xAA", "D1", 1>>), Sha256(<<"0xbb", "D1", 1>>)}
\* Requirement sets passed to the derivations, by their minAge.
SomeRequirements == {18, 21}
\* documentNumber and dob strings passed to utils generateNullifier.
SomeDocuments == {<<65>>, <<66>>}
SomeDobs == {<<49>>}

CredentialIssuerGenerateNullifier(credentialId, requirements) ==
    Sha256(<<credentialId, requirements, now>>)

\* A 32-bit integer is held as its two 16-bit halves <<high, low>>.
Int32Times31Plus(h, c) ==
    LET low == h[2] * 31 + c
        high == h[1] * 31 + (low \div 65536)
    IN <<high % 65536, low % 65536>>

\* Math.abs of the signed reading of the 32 bits.
Int32Abs(h) ==
    IF h[1] < 32768 THEN h
    ELSE IF h[2] = 0 THEN <<65536 - h[1], 0>>
    ELSE <<65535 - h[1], 65536 - h[2]>>

RECURSIVE SimpleHashFrom(_, _)
SimpleHashFrom(h, str) ==
    IF str = <<>> THEN h
    ELSE SimpleHashFrom(Int32Times31Plus(h, Head(str)), Tail(str))

\* simpleHash: the absolute value of the 32-bit rolling hash, which the
\* hexadecimal padding renders one to one.
simpleHash(str) == Int32Abs(SimpleHashFrom(<<0, 0>>, str))

\* The decimal digits of a clock value or of a Math.random() value.
Digits(n) == <<48 + n>>

UtilsGenerateNullifier(documentNumber, dob, rnd) ==
    simpleHash(documentNumber \o <<95>> \o dob \o <<95>> \o Digits(now)
               \o <<95>> \o <<48, 46>> \o Digits(rnd))

Derives(fn, subject, requirements, out) ==
    /\ Cardinality(derived) < MaxDerivations
    /\ derived' = derived \cup {[fn |-> fn, subject |-> subject,
                                 requirements |-> requirements, out |-> out]}
    /\ UNCHANGED now
    /\ UNCHANGED <<vsVars, regVars, srvVars, ciVars, appVars>>

DeriveService(credentialId, requirements, rnd) ==
    Derives("VerificationService", credentialId, requirements,
            generateNullifier(credentialId, requirements, rnd))

DeriveIssuer(credentialId, requirements) ==
    Derives("CredentialIssuer", credentialId, requirements,
            CredentialIssuerGenerateNullifier(credentialId, requirements))

DeriveUtils(documentNumber, dob, requirements, rnd) ==
    Derives("utils", <<documentNumber, dob>>, requirements,
            UtilsGenerateNullifier(documentNumber, dob, rnd))

NfNext ==
    \/ Tick
    \/ \E c \in SomeCredentialIds, r \in SomeRequirements, x \in RandomValues :
          DeriveService(c, r, x)
    \/ \E c \in SomeCredentialIds, r \in SomeRequirements : DeriveIssuer(c, r)
    \/ \E d \in SomeDocuments, b \in SomeDobs, r \in SomeRequirements,
          x \in RandomValues :
          DeriveUtils(d, b, r, x)

(***************************************************************************)
(* CredentialIssuer. issueCredential awaits signCredential between the     *)
(* drawing of the credential id and the storing of the record.             *)
(* verifyCredential and generateSelectiveDisclosure await mocks after      *)
(* the tests of the record that decide their result and are one step       *)
(* each; revokeCredential and generateZKProof have no await.               *)
(***************************************************************************)
\* templateId arguments: a template of initializeTemplates, and none.
TemplateIds == {"basic_kyc", "unknown"}

\* validityPeriod of the template.
ValidityPeriod(templateId) == OneYear

\* attributes of the template basic_kyc.
TemplateAttributes(templateId) ==
    {"fullName", "dateOfBirth", "country", "documentType", "isAdult"}

\* userData arguments of issueCredential. Attribute values are strings.
Ann ==
    [userAddress |-> "0xAA", fullName |-> "Ann", dateOfBirth |-> "1990-01-01",
     country |-> "KE", documentType |-> "passport", isAdult |-> "true",
     documentNumber |-> "D1"]

UserDatas ==
    {Ann,
     [Ann EXCEPT !.documentNumber = "D2"],
     [Ann EXCEPT !.dateOfBirth = "2015-01-01"],
     [a \in DOMAIN Ann \ {"country"} |-> Ann[a]]}

\* calculateAge: the full years from the date of birth to today.
calculateAge(dateOfBirth) == IF dateOfBirth = "1990-01-01" THEN 36 ELSE 11

\* validateUserData(userData, template).valid
validateUserData(userData, templateId) ==
    /\ \A attr \in TemplateAttributes(templateId) : attr \in DOMAIN userData
    /\ ~(/\ "isAdult" \in TemplateAttributes(templateId)
         /\ "dateOfBirth" \in DOMAIN userData
         /\ calculateAge(userData.dateOfBirth) < 18)

\* `did:ethr:${userData.userAddress}`
Did(userAddress) == IF userAddress = "0xAA" THEN "did:ethr:0xAA" ELSE "did:ethr:"

\* credentialSubject: the id, and extractCredentialSubject(userData,
\* template).
extractCredentialSubject(userData, templateId) ==
    [attr \in {"id"} \cup (TemplateAttributes(templateId) \cap DOMAIN userData)
                     \cup (TemplateAttributes(templateId) \cap {"isAdult"}) |->
        IF attr = "id" THEN Did(userData.userAddress)
        ELSE IF attr = "isAdult"
        THEN (IF calculateAge(userData.dateOfBirth) >= 18 THEN "true"
              ELSE "false")
        ELSE userData[attr]]

\* The property names every object inherits from Object.prototype.
ObjectPrototypeKeys == {"constructor", "toString"}

\* obj[key] !== undefined
IsDefined(obj, key) == key \in DOMAIN obj \/ key \in ObjectPrototypeKeys

\* obj[key]: the own property, or the inherited function.
Get(obj, key) == IF key \in DOMAIN obj THEN obj[key] ELSE "[Function]"

\* String(value) of a property that may be absent.
StringOf(obj, key) ==
    <<"str", IF key \in DOMAIN obj THEN obj[key] ELSE "undefined">>

\* JSON.stringify(subject)
JsonStringify(subject) == <<"json", subject>>

\* hashAttribute(value): the digest of String(value).
hashAttribute(string) == Sha256(<<string>>)

\* generateZKCommitment: the digest of the subject and the issuance date.
generateZKCommitment(subject, issuanceDate) ==
    Sha256(<<JsonStringify(subject), issuanceDate>>)

\* Requirement sets passed to generateZKProof; 0 and "" stand for a field
\* that is absent.
CircuitRequirements ==
    {[minAge |-> 0, country |-> ""], [minAge |-> 21, country |-> "KE"]}

\* The credential ids drawn so far.
DrawnIds == DOMAIN issuedCredentials \cup {g.credentialId : g \in signing}

\* crypto.randomBytes(16): only its being different from the earlier
\* draws matters, so the draws are numbered.
RandomBytes(userAddress) ==
    CHOOSE r \in 1..(MaxIssued + 1) :
        /\ Sha256(<<userAddress, now, r>>) \notin DrawnIds
        /\ \A q \in 1..(r - 1) : Sha256(<<userAddress, now, q>>) \in DrawnIds

IssuerGenerateCredentialId(userAddress) ==
    Sha256(<<userAddress, now, RandomBytes(userAddress)>>)

\* What a call returned: value is valid, publicSignals or
\* disclosedAttributes; error is the error returned or thrown, if any.
Return(fn, credentialId, error, value) ==
    [fn |-> fn, credentialId |-> credentialId, error |-> error,
     value |-> value]

CIInit ==
    /\ issuedCredentials = <<>>
    /\ revokedCredentials = {}
    /\ signing = {}
    /\ lastReturn = Return("none", <<>>, "", <<>>)
    /\ validBefore = FALSE

\* A template's validity period passes, once the clock has run.
YearPasses ==
    /\ now = MaxTime
    /\ now' = now + OneYear
    /\ UNCHANGED <<vsVars, regVars, srvVars, derived, ciVars, appVars>>

\* issueCredential up to its await on signCredential. It throws before it
\* changes anything when the template is unknown or the user data do not
\* pass validateUserData.
IssuerIssueCredential(userData, templateId) ==
    /\ Cardinality(DrawnIds) < MaxIssued
    /\ IF templateId = "unknown" \/ ~validateUserData(userData, templateId)
       THEN UNCHANGED signing
       ELSE signing' = signing \cup
                {[credentialId |->
                      IssuerGenerateCredentialId(userData.userAddress),
                  userAddress |-> userData.userAddress,
                  templateId |-> templateId,
                  issuanceDate |-> now,
                  expirationDate |-> now + ValidityPeriod(templateId),
                  credentialSubject |->
                      extractCredentialSubject(userData, templateId)]}
    /\ UNCHANGED <<now, issuedCredentials, revokedCredentials, lastReturn,
                   validBefore>>
    /\ UNCHANGED <<vsVars, regVars, srvVars, derived, appVars>>

\* IssuerSignSettles that sets the subject's earlier credentials active.
IssuerSignSettlesReactivating(g) ==
    /\ g \in signing
    /\ signing' = signing \ {g}
    /\ issuedCredentials' =
           MapSet([id \in DOMAIN issuedCredentials |->
                      IF issuedCredentials[id].userAddress =
                             ToLowerCase(g.userAddress)
                      THEN [issuedCredentials[id] EXCEPT !.status = "active"]
                      ELSE issuedCredentials[id]],
                  g.credentialId,
                  [userAddress |-> ToLowerCase(g.userAddress),
                   templateId |-> g.templateId,
                   credentialSubject |-> g.credentialSubject,
                   commitment |->
                       generateZKCommitment(g.credentialSubject, g.issuanceDate),
                   expirationDate |-> g.expirationDate,
                   issuedAt |-> now,
                   status |-> "active",
                   revokedAt |-> 0,
                   revocationReason |-> "",
                   zkProofs |-> <<>>])
    /\ UNCHANGED <<now, revokedCredentials, lastReturn, validBefore>>
    /\ UNCHANGED <<vsVars, regVars, srvVars, derived, appVars>>

\* signCredential settles: issueCredential stores the record and returns.
\* A field the record does not have yet is 0, "" or <<>>.
IssuerSignSettles(g) ==
    /\ g \in signing
    /\ signing' = signing \ {g}
    /\ issuedCredentials' = MapSet(issuedCredentials, g.credentialId,
           [userAddress |-> ToLowerCase(g.userAddress),
            templateId |-> g.templateId,
            credentialSubject |-> g.credentialSubject,
            commitment |->
                generateZKCommitment(g.credentialSubject, g.issuanceDate),
            expirationDate |-> g.expirationDate,
            issuedAt |-> now,
            status |-> "active",
            revokedAt |-> 0,
            revocationReason |-> "",
            zkProofs |-> <<>>])
    /\ UNCHANGED <<now, revokedCredentials, lastReturn, validBefore>>
    /\ UNCHANGED <<vsVars, regVars, srvVars, derived, appVars>>

\* revokeCredential without line 190, revokedCredentials.add.
IssuerRevokeCredentialUnlisted(credentialId, reason) ==
    /\ IF credentialId \in DOMAIN issuedCredentials
       THEN /\ issuedCredentials' =
                   [issuedCredentials EXCEPT
                       ![credentialId].status = "revoked",
                       ![credentialId].revokedAt = now,
                       ![credentialId].revocationReason = reason]
            /\ UNCHANGED revokedCredentials
       ELSE UNCHANGED <<issuedCredentials, revokedCredentials>>
    /\ UNCHANGED <<now, signing, lastReturn, validBefore>>
    /\ UNCHANGED <<vsVars, regVars, srvVars, derived, appVars>>

\* CredentialIssuer.revokeCredential: throws 'Credential not found' for an
\* id that is not stored.
IssuerRevokeCredential(credentialId, reason) ==
    /\ IF credentialId \in DOMAIN issuedCredentials
       THEN /\ issuedCredentials' =
                   [issuedCredentials EXCEPT
                       ![credentialId].status = "revoked",
                       ![credentialId].revokedAt = now,
                       ![credentialId].revocationReason = reason]
            /\ revokedCredentials' = revokedCredentials \cup {credentialId}
       ELSE UNCHANGED <<issuedCredentials, revokedCredentials>>
    /\ UNCHANGED <<now, signing, lastReturn, validBefore>>
    /\ UNCHANGED <<vsVars, regVars, srvVars, derived, appVars>>

\* What verifyCredential hands to verifyDisclosureProof: no proof, a proof
\* of type SelectiveDisclosureProof, or another object.
DisclosureProofs == {"none", "SelectiveDisclosureProof", "other"}

\* verifySignature: credential.proof && credential.proof.jwt, which
\* signCredential sets on every stored credential.
verifySignature(credentialRecord) == TRUE

\* verifyDisclosureProof
verifyDisclosureProof(proof) == proof = "SelectiveDisclosureProof"

\* verifyCredential without the expiry test of lines 226-233.
verifyCredentialUnexpiring(credentialId, proof) ==
    IF credentialId \notin DOMAIN issuedCredentials
    THEN Return("verifyCredential", credentialId, "Credential not found", FALSE)
    ELSE LET credentialRecord == issuedCredentials[credentialId]
         IN IF credentialRecord.status = "revoked"
            THEN Return("verifyCredential", credentialId, "Credential revoked",
                        FALSE)
            ELSE Return("verifyCredential", credentialId, "",
                        /\ verifySignature(credentialRecord)
                        /\ (proof = "none" \/ verifyDisclosureProof(proof)))

\* What verifyCredential returns: valid and error. Its two awaits are on
\* mocks that read nothing but their arguments.
verifyCredential(credentialId, proof) ==
    IF credentialId \notin DOMAIN issuedCredentials
    THEN Return("verifyCredential", credentialId, "Credential not found", FALSE)
    ELSE LET credentialRecord == issuedCredentials[credentialId]
         IN IF credentialRecord.status = "revoked"
            THEN Return("verifyCredential", credentialId, "Credential revoked",
                        FALSE)
            ELSE IF credentialRecord.expirationDate < now
            THEN Return("verifyCredential", credentialId, "Credential expired",
                        FALSE)
            ELSE Return("verifyCredential", credentialId, "",
                        /\ verifySignature(credentialRecord)
                        /\ (proof = "none" \/ verifyDisclosureProof(proof)))

\* A call of verifyCredential.
IssuerVerifyCredential(credentialId, proof) ==
    /\ lastReturn' = verifyCredential(credentialId, proof)
    /\ validBefore' = /\ lastReturn.fn = "verifyCredential"
                      /\ lastReturn.credentialId = credentialId
                      /\ lastReturn.value
    /\ UNCHANGED <<now, issuedCredentials, revokedCredentials, signing>>
    /\ UNCHANGED <<vsVars, regVars, srvVars, derived, appVars>>

\* prepareCircuitInputs with dobHash among the public inputs.
prepareCircuitInputsLeaking(subject, requirements) ==
    [private |->
         [fullNameHash |-> hashAttribute(StringOf(subject, "fullName")),
          dobHash |-> hashAttribute(StringOf(subject, "dateOfBirth")),
          documentHash |-> hashAttribute(StringOf(subject, "documentNumber"))],
     public |->
         <<<<"minAge",
             IF requirements.minAge # 0 THEN requirements.minAge ELSE 18>>,
           <<"allowedCountry",
             IF requirements.country # "" THEN requirements.country
             ELSE "ANY">>,
           hashAttribute(JsonStringify(subject)),
           hashAttribute(StringOf(subject, "dateOfBirth"))>>]

\* prepareCircuitInputs(credential, requirements): the private inputs, and
\* the public inputs in the order Object.values lists them. A threshold
\* is paired with its name.
prepareCircuitInputs(subject, requirements) ==
    [private |->
         [fullNameHash |-> hashAttribute(StringOf(subject, "fullName")),
          dobHash |-> hashAttribute(StringOf(subject, "dateOfBirth")),
          documentHash |-> hashAttribute(StringOf(subject, "documentNumber"))],
     public |->
         <<<<"minAge",
             IF requirements.minAge # 0 THEN requirements.minAge ELSE 18>>,
           <<"allowedCountry",
             IF requirements.country # "" THEN requirements.country
             ELSE "ANY">>,
           hashAttribute(JsonStringify(subject))>>]

\* publicSignals of the proof generateZKProof returns for a stored
\* credential (lines 281-285).
ZKPublicSignals(credentialId, circuitRequirements) ==
    <<CredentialIssuerGenerateNullifier(credentialId, circuitRequirements),
      issuedCredentials[credentialId].commitment>>
        \o prepareCircuitInputs(
               issuedCredentials[credentialId].credentialSubject,
               circuitRequirements).public

\* The zkProofs entries the stored records hold.
ZKProofEntries ==
    UNION {{<<id, k>> : k \in 1..Len(issuedCredentials[id].zkProofs)} :
              id \in DOMAIN issuedCredentials}

\* generateZKProof has no await: it runs to its end. It throws 'Credential
\* not found' before it changes anything.
IssuerGenerateZKProof(credentialId, circuitRequirements) ==
    /\ Cardinality(ZKProofEntries) < MaxZKProofs
    /\ IF credentialId \notin DOMAIN issuedCredentials
       THEN /\ lastReturn' = Return("generateZKProof", credentialId,
                                     "Credential not found", <<>>)
            /\ UNCHANGED issuedCredentials
       ELSE LET nullifier ==
                    CredentialIssuerGenerateNullifier(credentialId,
                                                      circuitRequirements)
            IN /\ issuedCredentials' =
                      [issuedCredentials EXCEPT ![credentialId].zkProofs =
                          Append(@, [nullifier |-> nullifier,
                                     circuitRequirements |-> circuitRequirements,
                                     generatedAt |-> now])]
               /\ lastReturn' =
                      Return("generateZKProof", credentialId, "",
                             ZKPublicSignals(credentialId,
                                             circuitRequirements))
    /\ UNCHANGED <<now, revokedCredentials, signing, validBefore>>
    /\ UNCHANGED <<vsVars, regVars, srvVars, derived, appVars>>

\* requestedAttributes arguments of generateSelectiveDisclosure.
AttributeRequests == {{"fullName", "nickname"}, {"toString"}}

\* generateSelectiveDisclosure: its one await is on createDisclosureProof,
\* a mock that reads nothing but its arguments. It throws 'Credential not
\* found' or 'Credential status is ...' before it does anything.
IssuerGenerateSelectiveDisclosure(credentialId, requestedAttributes) ==
    /\ lastReturn' =
           IF credentialId \notin DOMAIN issuedCredentials
           THEN Return("generateSelectiveDisclosure", credentialId,
                       "Credential not found", <<>>)
           ELSE IF issuedCredentials[credentialId].status # "active"
           THEN Return("generateSelectiveDisclosure", credentialId,
                       "Credential status is revoked", <<>>)
           ELSE LET subject ==
                        issuedCredentials[credentialId].credentialSubject
                IN Return("generateSelectiveDisclosure", credentialId, "",
                          [attr \in {r \in requestedAttributes :
                                        IsDefined(subject, r)} |->
                              Get(subject, attr)])
    /\ UNCHANGED <<now, issuedCredentials, revokedCredentials, signing,
                   validBefore>>
    /\ UNCHANGED <<vsVars, regVars, srvVars, derived, appVars>>

\* CredentialIssuer.getStats: the three counts it returns.
IssuerGetStats ==
    [totalCredentials |-> Cardinality(DOMAIN issuedCredentials),
     activeCredentials |->
         Cardinality({id \in DOMAIN issuedCredentials :
                         issuedCredentials[id].status = "active"}),
     revokedCredentials |-> Cardinality(revokedCredentials)]

\* The credential ids a caller may pass: those stored, and one that is not.
IssuerCredentialIds == DOMAIN issuedCredentials \cup {UnknownCredentialId}

\* The life of a credential: issuance and revocation.
CINext ==
    \/ Tick
    \/ \E u \in UserDatas, t \in TemplateIds : IssuerIssueCredential(u, t)
    \/ \E g \in signing : IssuerSignSettles(g)
    \/ \E id \in IssuerCredentialIds, r \in Reasons \cup {""} :
          IssuerRevokeCredential(id, r)

\* Issuance, revocation and the passing of time, with verifyCredential
\* calls.
CIVerifyNext ==
    \/ Tick
    \/ YearPasses
    \/ \E u \in UserDatas, t \in TemplateIds : IssuerIssueCredential(u, t)
    \/ \E g \in signing : IssuerSignSettles(g)
    \/ \E id \in IssuerCredentialIds, r \in Reasons :
          IssuerRevokeCredential(id, r)
    \/ \E id \in IssuerCredentialIds, p \in DisclosureProofs :
          IssuerVerifyCredential(id, p)

\* Issuance with generateZKProof calls.
CIProveNext ==
    \/ Tick
    \/ \E u \in UserDatas, t \in TemplateIds : IssuerIssueCredential(u, t)
    \/ \E g \in signing : IssuerSignSettles(g)
    \/ \E id \in IssuerCredentialIds, r \in CircuitRequirements :
          IssuerGenerateZKProof(id, r)

\* The life of a credential with generateSelectiveDisclosure calls.
CIDiscloseNext ==
    \/ CINext
    \/ \E id \in IssuerCredentialIds, a \in AttributeRequests :
          IssuerGenerateSelectiveDisclosure(id, a)

(***************************************************************************)
(* The App component. A handler runs to its end or to its next await; the  *)
(* state it set is rendered while it is suspended. The Connect Wallet and  *)
(* Try Demo Mode buttons are rendered while userAddress is empty, the      *)
(* first one disabled while isConnecting; the Disconnect button is         *)
(* rendered while userAddress is not empty.                                *)
(***************************************************************************)
\* What eth_requestAccounts and an accountsChanged event deliver: no
\* account, or the selected account of the wallet first.
AccountLists == {<<>>, <<"0xA1">>, <<"0xB2">>}

\* The value null of contract and of credential; a contract object that
\* is set is named by its kind.
Null == [null |-> TRUE]

\* The credential objects of lines 113-119, 159-165 and 192-198.
MockCredential(prefix, address) ==
    [id |-> <<prefix, now>>,
     userAddress |-> address,
     issuedAt |-> now,
     expiryDate |-> now + OneYear,
     verified |-> TRUE]

AppInit ==
    /\ appUserAddress = ""
    /\ appContract = Null
    /\ appNetwork = "Not Connected"
    /\ appCredential = Null
    /\ isConnecting = FALSE
    /\ appError = ""
    /\ connecting = {}
    /\ listening = FALSE
    /\ lastEvent = "none"

\* connectWallet up to its await on eth_requestAccounts, or to its end
\* when MetaMask is not installed (checkMetaMask sets the error and the
\* finally block resets isConnecting).
connectWallet(installed) ==
    /\ appUserAddress = ""
    /\ ~isConnecting
    /\ lastEvent' = "connectWallet"
    /\ IF installed
       THEN /\ appError' = ""
            /\ isConnecting' = TRUE
            /\ connecting' = connecting \cup
                   {[pc |-> "eth_requestAccounts", address |-> ""]}
       ELSE /\ appError' = "MetaMask is not installed"
            /\ UNCHANGED <<isConnecting, connecting>>
    /\ UNCHANGED <<appUserAddress, appContract, appNetwork, appCredential,
                   listening>>
    /\ UNCHANGED <<now, vsVars, regVars, srvVars, derived, ciVars>>

\* The catch and finally blocks of connectWallet (lines 139-168).
ConnectFallsBack(c, message) ==
    /\ connecting' = connecting \ {c}
    /\ appError' = message
    /\ appUserAddress' = "0xDemoUser1234567890"
    /\ appNetwork' = "Base (Demo Mode)"
    /\ appContract' = [kind |-> "fallback"]
    /\ appCredential' = MockCredential("demo_cred_", "0xDemoUser1234567890")
    /\ isConnecting' = FALSE
    /\ UNCHANGED listening

\* eth_requestAccounts settles with accounts, or rejects with a code (0
\* is any code but 4001 and -32002).
\* With an account connectWallet sets userAddress and goes on to its await
\* on provider.getNetwork(); providerOk: new Web3Provider did not throw.
requestAccountsSettles(c, rejected, code, accounts, providerOk) ==
    /\ c \in connecting
    /\ c.pc = "eth_requestAccounts"
    /\ lastEvent' = "connectWallet resumed"
    /\ IF rejected
       THEN ConnectFallsBack(c,
                CASE code = 4001 -> "Connection rejected by user"
                  [] code = -32002 -> "MetaMask connection already pending"
                  [] OTHER -> "Failed to connect wallet")
       ELSE IF accounts = <<>>
       THEN ConnectFallsBack(c, "Failed to connect wallet")
       ELSE /\ appUserAddress' = accounts[1]
            /\ appNetwork' = IF providerOk THEN appNetwork
                          ELSE "Mainnet (Read-only)"
            /\ connecting' = (connecting \ {c}) \cup
                   {[pc |-> "getNetwork", address |-> accounts[1]]}
            /\ UNCHANGED <<appContract, appCredential, isConnecting, appError,
                           listening>>
    /\ UNCHANGED <<now, vsVars, regVars, srvVars, derived, ciVars>>

\* provider.getNetwork() settles with networkInfo.name, or rejects (name
\* is "throw"): connectWallet sets the network, the mock
\* contract and the mock credential, registers its listeners and ends.
getNetworkSettles(c, name) ==
    /\ c \in connecting
    /\ c.pc = "getNetwork"
    /\ lastEvent' = "connectWallet resumed"
    /\ connecting' = connecting \ {c}
    /\ appNetwork' = CASE name = "throw" -> "Unknown"
                    [] name = "unknown" -> "Base"
                    [] OTHER -> name
    /\ appContract' = [kind |-> "mock"]
    /\ appCredential' = MockCredential("cred_", c.address)
    /\ listening' = TRUE
    /\ isConnecting' = FALSE
    /\ UNCHANGED <<appUserAddress, appError>>
    /\ UNCHANGED <<now, vsVars, regVars, srvVars, derived, ciVars>>

\* The accountsChanged listener of lines 122-132.
accountsChanged(accounts) ==
    /\ listening
    /\ lastEvent' = IF accounts = <<>> THEN "accountsChanged: none"
                    ELSE "accountsChanged"
    /\ IF accounts = <<>>
       THEN /\ appUserAddress' = ""
            /\ appContract' = Null
            /\ appCredential' = Null
            /\ appNetwork' = "Not Connected"
       ELSE /\ appUserAddress' = accounts[1]
            /\ UNCHANGED <<appContract, appCredential, appNetwork>>
    /\ UNCHANGED <<isConnecting, appError, connecting, listening>>
    /\ UNCHANGED <<now, vsVars, regVars, srvVars, derived, ciVars>>

connectDemoMode ==
    /\ appUserAddress = ""
    /\ lastEvent' = "connectDemoMode"
    /\ appUserAddress' = "0xDemoUser1234567890abcdef1234567890abcdef12"
    /\ appNetwork' = "Base (Demo Mode)"
    /\ appContract' = [kind |-> "demo"]
    /\ appCredential' =
           MockCredential("demo_cred_",
                          "0xDemoUser1234567890abcdef1234567890abcdef12")
    /\ appError' = ""
    /\ UNCHANGED <<isConnecting, connecting, listening>>
    /\ UNCHANGED <<now, vsVars, regVars, srvVars, derived, ciVars>>

\* The onClick handler of the Disconnect button (lines 264-275).
disconnect ==
    /\ appUserAddress # ""
    /\ lastEvent' = "disconnect"
    /\ appUserAddress' = ""
    /\ appContract' = Null
    /\ appCredential' = Null
    /\ appNetwork' = "Not Connected"
    /\ appError' = ""
    /\ UNCHANGED <<isConnecting, connecting, listening>>
    /\ UNCHANGED <<now, vsVars, regVars, srvVars, derived, ciVars>>

AppNext ==
    \/ Tick
    \/ \E installed \in BOOLEAN : connectWallet(installed)
    \/ \E c \in connecting, rejected \in BOOLEAN, code \in {4001, -32002, 0},
          accounts \in AccountLists, providerOk \in BOOLEAN :
          requestAccountsSettles(c, rejected, code, accounts, providerOk)
    \/ \E c \in connecting, name \in {"unknown", "homestead", "throw"} :
          getNetworkSettles(c, name)
    \/ \E accounts \in AccountLists : accountsChanged(accounts)
    \/ connectDemoMode
    \/ disconnect

(***************************************************************************)
(* Properties                                                              *)
(***************************************************************************)
\* C1: of the verifyProof calls in flight at once for a nullifier that
\* generateProof registered, with proofs the verifiers accept, exactly one
\* returns success: no registered nullifier is ever accepted twice.
C1_OneSuccessAmongConcurrentCalls ==
    \A n \in DOMAIN proofCache : SuccessCount(n) <= 1

\* The ProofVerified events emitted for a nullifier: the verifyProof
\* transactions that returned true for it.
VerifiedCount(nullifier) ==
    Cardinality({i \in 1..Len(events) :
                    /\ events[i][1] = "ProofVerified"
                    /\ events[i][3] = nullifier})

\* C2: ZkKYCRegistry.verifyProof returns true at most once per nullifier,
\* a nullifier is recorded exactly when a call for it returned true, and a
\* call for a recorded nullifier reverts with 'Proof already used'.
C2_RegistryAtMostOncePerNullifier ==
    [][/\ \A n \in Bytes32Args \cup {2} :
             /\ VerifiedCount(n)' <= 1
             /\ (n \in nullifiers') <=> (VerifiedCount(n)' = 1)
       /\ \A s \in Senders, l \in ProofLengths, n \in nullifiers,
             r \in Bytes32Args :
             RegVerifyProof(s, l, n, r) =>
                 /\ lastTx'.result = "Proof already used"
                 /\ UNCHANGED <<nullifiers, events>>]_vars

\* C2 happens: a nullifier was recorded by a call that returned true, and
\* a later call for a recorded nullifier was reverted.
C2_Witness ==
    /\ lastTx.fn = "verifyProof"
    /\ lastTx.result = "Proof already used"
    /\ \E n \in nullifiers : VerifiedCount(n) = 1

\* C3: sequentially, a verifyProof call with the artifact generateProof
\* produced for a valid credential returns success and marks the nullifier
\* verified when no earlier call for it succeeded; a call with the same
\* artifact after a success returns 'Proof already used' and changes
\* nothing in the cache.
C3_AcceptedOnceThenReplayRejected ==
    [][\A n \in DOMAIN proofCache :
          verifyProof(n, TRUE) =>
              /\ (SuccessCount(n) = 0 /\ TargetStatus(n) = "valid") =>
                     /\ lastVerify' = [nullifier |-> n, result |-> "success"]
                     /\ proofCache'[n].verified
              /\ SuccessCount(n) > 0 =>
                     /\ lastVerify' = [nullifier |-> n,
                                       result |-> "Proof already used"]
                     /\ UNCHANGED <<proofCache, successes>>]_vars

\* C3 happens: the artifact of a valid credential was accepted once, and
\* its resubmission was rejected.
C3_Witness ==
    /\ lastVerify.result = "Proof already used"
    /\ lastVerify.nullifier \in DOMAIN proofCache
    /\ SuccessCount(lastVerify.nullifier) = 1
    /\ TargetStatus(lastVerify.nullifier) = "valid"

\* C4: for any nullifier, registered by generateProof or not, once a
\* verifyProof call for it has returned success no later call for it does.
C4_NoSuccessAfterSuccess ==
    [][\A n \in KnownNullifiers :
          SuccessCount(n) >= 1 => SuccessCount(n)' = SuccessCount(n)]_vars

\* C5: once POST /api/verify-proof has answered success for a nullifier,
\* no later request for that nullifier is answered success.
C5_ServerReplayRejected ==
    \A n \in ServerNullifiers : AnsweredCount(n) <= 1

\* C6: a proof whose credential was revoked after the proof was generated
\* is not accepted by verifyProof.
C6_RevokedCredentialProofRejected ==
    [][\A n \in DOMAIN proofCache :
          SuccessCount(n)' > SuccessCount(n) =>
              ~getCredentialById(proofCache[n].credentialId).revoked]_vars

\* C7: verifyProof returns success only for a proof whose target
\* credential is registered and not expired.
C7_SuccessOnlyWhileCredentialValid ==
    [][\A n \in KnownNullifiers :
          SuccessCount(n)' > SuccessCount(n) =>
              TargetStatus(n) \notin {"unknown", "expired"}]_vars

\* The server treats a nullifier as used: the test of line 52.
ServerTreatsAsUsed(nullifier) == nullifier \in DOMAIN credentialsDB

\* C8: POST /api/generate-proof changes no nullifier's replay state: the
\* nullifiers verify-proof treats as used are the same before and after.
C8_GenerationKeepsReplayState ==
    [][\A u \in UserIds, t \in Timestamps, c \in BOOLEAN :
          PostGenerateProof(u, t, c) =>
              \A n \in ServerNullifiers :
                  ServerTreatsAsUsed(n)' = ServerTreatsAsUsed(n)]_vars

\* C9: generateProof records a proof entry only for a credential that is
\* valid at call time: neither expired nor revoked.
C9_NoProofForInvalidCredential ==
    [][\A n \in UsedNullifiers' \ UsedNullifiers :
          \A g \in (IF n \in DOMAIN proofCache'
                    THEN {proofCache'[n].credentialId}
                    ELSE {p.credentialId : p \in {q \in proving' :
                                                     q.nullifier = n}}) :
              CredentialStatus(g) = "valid"]_vars

\* C10: two derivations by the same function from the same credential
\* yield the same nullifier when their requirement sets are the same, and
\* different nullifiers when their requirement sets differ.
C10_DerivationDeterministic ==
    \A d1 \in derived, d2 \in derived :
        (d1.fn = d2.fn /\ d1.subject = d2.subject) =>
            ((d1.requirements = d2.requirements) <=> (d1.out = d2.out))


\* The nullifier is consumed: its cache entry is marked verified.
Consumed(nullifier) ==
    nullifier \in DOMAIN proofCache /\ proofCache[nullifier].verified

C12_FailureCommitsNothing ==
    [][successes' = successes =>
          \A n \in DOMAIN proofCache :
              /\ n \in DOMAIN proofCache'
              /\ proofCache'[n].verified = proofCache[n].verified
              /\ proofCache'[n].verifiedAt = proofCache[n].verifiedAt]_vars

\* C12 happens: a replay was rejected after the clock moved on, and the
\* record still holds the time of the first verification.
C12_Witness ==
    /\ lastVerify.result = "Proof already used"
    /\ Consumed(lastVerify.nullifier)
    /\ proofCache[lastVerify.nullifier].verifiedAt < now

\* this.trustedIssuers of the VerificationService: filled by the
\* constructor and never written again.
ServiceTrustedIssuers ==
    {"0x742d35Cc6634C0532925a3b844Bc9eE7a2F1d3c1",
     "0x53d284357ec70cE289D6D64134DfAc8E511c8a3D"}

\* The parties that may call issueCredential: the trusted issuers and one
\* that is not. The call carries no issuer, so it is the same call for all.
IssuingParties == ServiceTrustedIssuers \cup {"0xEVE"}

\* C14: an issueCredential call by a party that is not in the trusted
\* issuer set stores no credential.
C14_UntrustedIssuerStoresNothing ==
    [][\A party \in IssuingParties \ ServiceTrustedIssuers,
          a \in AddressInputs, d \in Docs, e \in ExpiryInputs :
          issueCredential(a, d, e) => UNCHANGED credentials]_vars

\* The user has a registered record: a KYCVerified event was emitted for
\* the user.
Registered(user) ==
    \E i \in 1..Len(events) :
        events[i][1] = "KYCVerified" /\ events[i][2] = user

\* An IssuerRemoved event was emitted for the issuer.
WasRemoved(issuer) ==
    \E i \in 1..Len(events) :
        events[i][1] = "IssuerRemoved" /\ events[i][2] = issuer

\* C13: kycStatus changes only in a registerKYC call by a sender that is a
\* trusted issuer at that time, which leaves the user's record active with
\* the given expiryDate and credentialRoot; a registerKYC call by any other
\* sender reverts with 'Not trusted issuer' and changes nothing.
C13_RegisterOnlyByTrustedIssuer ==
    [][/\ kycStatus' # kycStatus =>
             \E s \in Senders \cap trustedIssuers, u \in KYCUsers,
                e \in ExpiryInputs, r \in Bytes32Args :
                 /\ registerKYC(s, u, e, r)
                 /\ kycStatus'[u].isActive
                 /\ kycStatus'[u].expiryDate = e
                 /\ kycStatus'[u].credentialRoot = r
                 /\ \A v \in KYCUsers \ {u} : kycStatus'[v] = kycStatus[v]
       /\ \A s \in Senders \ trustedIssuers, u \in KYCUsers,
             e \in ExpiryInputs, r \in Bytes32Args :
             registerKYC(s, u, e, r) =>
                 /\ lastTx' = Tx("registerKYC", "Not trusted issuer")
                 /\ UNCHANGED <<kycStatus, events>>]_vars

\* C13 happens: an issuer registered a user, was removed, and its next
\* registerKYC was rejected.
C13_Witness ==
    /\ lastTx = Tx("registerKYC", "Not trusted issuer")
    /\ \E u \in KYCUsers : Registered(u)
    /\ \E i \in IssuerArgs : WasRemoved(i) /\ i \notin trustedIssuers

\* C15: trustedIssuers changes only in a call by the admin, and a call of
\* addTrustedIssuer or removeTrustedIssuer by anyone else reverts with
\* 'Only admin' and leaves the whole contract state as it was.
C15_IssuersChangedOnlyByAdmin ==
    [][/\ trustedIssuers' # trustedIssuers =>
             \E i \in IssuerArgs :
                 \/ addTrustedIssuer(admin, i)
                 \/ removeTrustedIssuer(admin, i)
       /\ \A s \in Senders \ {admin}, i \in IssuerArgs :
             (addTrustedIssuer(s, i) \/ removeTrustedIssuer(s, i)) =>
                 /\ lastTx'.result = "Only admin"
                 /\ UNCHANGED <<admin, trustedIssuers, kycStatus, nullifiers,
                                events>>]_vars

\* C15 happens: the admin added an issuer, and a call by somebody else
\* was rejected.
C15_Witness ==
    /\ lastTx.result = "Only admin"
    /\ trustedIssuers # {}

\* C16: a hasValidKYC call returns true exactly when the user was
\* registered and the record is active with expiryDate greater than the
\* current time, and it leaves the contract state as it was.
C16_HasValidKYCReadsActiveAndExpiry ==
    [][\A u \in KYCUsers :
          CallHasValidKYC(u) =>
              /\ (lastTx'.result = "true") <=>
                     /\ Registered(u)
                     /\ kycStatus[u].isActive
                     /\ kycStatus[u].expiryDate > now
              /\ Registered(u) => kycStatus[u].isActive
              /\ UNCHANGED <<admin, trustedIssuers, kycStatus, nullifiers,
                             events, now>>]_vars

\* C16 happens: hasValidKYC returned true for a registered user.
C16_Witness ==
    /\ lastTx = Tx("hasValidKYC", "true")
    /\ \E u \in KYCUsers : Registered(u) /\ kycStatus[u].expiryDate > now

\* C17: while a registered user's record is not written again, the user
\* is valid exactly at the times before the record's expiryDate, and once
\* not valid stays not valid.
C17_ExpiryMonotone ==
    [][\A u \in KYCUsers :
          (Registered(u) /\ kycStatus'[u] = kycStatus[u]) =>
              /\ hasValidKYC(u)' <=> (now' < kycStatus[u].expiryDate)
              /\ ~hasValidKYC(u) => ~hasValidKYC(u)']_vars

\* C17 happens: a record registered with a later expiryDate has expired
\* by the passing of time alone.
C17_Witness ==
    \E u \in KYCUsers :
        /\ Registered(u)
        /\ kycStatus[u].verifiedAt < kycStatus[u].expiryDate
        /\ kycStatus[u].expiryDate <= now
        /\ ~hasValidKYC(u)

\* C18: a record is written to kycStatus only with an expiryDate later
\* than the current time.
C18_ExpiryInPastRejected ==
    [][\A u \in KYCUsers :
          kycStatus'[u] # kycStatus[u] => kycStatus'[u].expiryDate > now]_vars

\* The credentials of a subject the CredentialIssuer holds as active.
ActiveCredentialsOf(userAddress) ==
    {id \in DOMAIN issuedCredentials :
        /\ issuedCredentials[id].userAddress = ToLowerCase(userAddress)
        /\ issuedCredentials[id].status = "active"}

\* C19: each subject holds at most one active credential.
C19_OneActiveCredentialPerSubject ==
    \A a \in Addresses : Cardinality(ActiveCredentialsOf(a)) <= 1

\* C20: revoking an already revoked credential changes nothing: the
\* credential and the proof flags stay as the first revocation left them.
C20_RevocationIdempotent ==
    [][\A a \in Addresses, r \in Reasons :
          (/\ ToLowerCase(a) \in DOMAIN credentials
           /\ credentials[ToLowerCase(a)].revoked
           /\ revokeCredential(a, r)) =>
              UNCHANGED <<credentials, proofCache>>]_vars

\* C21: a revoked credential id stays revoked: no step leaves a stored
\* credential with the id of a revoked credential unrevoked.
C21_RevocationPermanent ==
    [][\A a \in DOMAIN credentials :
          credentials[a].revoked =>
              \A b \in DOMAIN credentials' :
                  credentials'[b].id = credentials[a].id =>
                      credentials'[b].revoked]_vars

\* C22: a repeated addTrustedIssuer or removeTrustedIssuer by the admin is
\* not rejected and leaves trustedIssuers as the first call left it.
C22_IssuerOperationsIdempotent ==
    [][\A i \in IssuerArgs :
          /\ addTrustedIssuer(admin, i) =>
                 /\ lastTx' = Tx("addTrustedIssuer", "ok")
                 /\ i \in trustedIssuers'
                 /\ i \in trustedIssuers => trustedIssuers' = trustedIssuers
          /\ removeTrustedIssuer(admin, i) =>
                 /\ lastTx' = Tx("removeTrustedIssuer", "ok")
                 /\ i \notin trustedIssuers'
                 /\ i \notin trustedIssuers =>
                        trustedIssuers' = trustedIssuers]_vars

\* The events of a kind emitted for an issuer.
IssuerEvents(kind, issuer) ==
    {k \in 1..Len(events) : events[k] = <<kind, issuer>>}

\* C22 happens: the admin added the same issuer twice, and the second call
\* went through.
C22_Witness ==
    /\ lastTx = Tx("addTrustedIssuer", "ok")
    /\ \E i \in trustedIssuers : Cardinality(IssuerEvents("IssuerAdded", i)) = 2

\* C23: a verifyProof call for a consumed nullifier returns 'Proof already
\* used' whatever the proof is, without starting a verifier and without
\* changing the cache: the replay check comes before the verification.
C23_ReplayCheckedBeforeVerification ==
    [][\A n \in DOMAIN proofCache, wf \in BOOLEAN :
          (Consumed(n) /\ verifyProof(n, wf)) =>
              /\ lastVerify' = [nullifier |-> n,
                                result |-> "Proof already used"]
              /\ UNCHANGED <<proofCache, verifying, successes>>]_vars

\* C23 happens: a consumed nullifier was submitted again and rejected as
\* a replay.
C23_Witness ==
    /\ lastVerify.result = "Proof already used"
    /\ Consumed(lastVerify.nullifier)

EventKinds == {events[k][1] : k \in 1..Len(events)}

\* The transaction that ended last succeeded in changing the contract.
Succeeded(tx) ==
    /\ tx.fn \in {"addTrustedIssuer", "removeTrustedIssuer", "registerKYC",
                  "verifyProof"}
    /\ tx.result \in {"ok", "true"}

\* C29: a transaction that succeeds appends exactly the one event of its
\* function and arguments and a transaction that is rejected appends none;
\* the contract state changes only together with an event, and a nullifier
\* has one ProofVerified event exactly when it is recorded as used.
C29_EventsMatchStateChanges ==
    [][/\ IF events' # events
          THEN /\ Len(events') = Len(events) + 1
               /\ SubSeq(events', 1, Len(events)) = events
               /\ Succeeded(lastTx')
               /\ LET e == events'[Len(events')]
                  IN CASE e[1] = "IssuerAdded" ->
                             /\ lastTx'.fn = "addTrustedIssuer"
                             /\ trustedIssuers' = trustedIssuers \cup {e[2]}
                             /\ UNCHANGED <<kycStatus, nullifiers>>
                       [] e[1] = "IssuerRemoved" ->
                             /\ lastTx'.fn = "removeTrustedIssuer"
                             /\ trustedIssuers' = trustedIssuers \ {e[2]}
                             /\ UNCHANGED <<kycStatus, nullifiers>>
                       [] e[1] = "KYCVerified" ->
                             /\ lastTx'.fn = "registerKYC"
                             /\ kycStatus'[e[2]].isActive
                             /\ kycStatus'[e[2]].credentialRoot = e[3]
                             /\ UNCHANGED <<trustedIssuers, nullifiers>>
                       [] e[1] = "ProofVerified" ->
                             /\ lastTx'.fn = "verifyProof"
                             /\ e[3] \notin nullifiers
                             /\ nullifiers' = nullifiers \cup {e[3]}
                             /\ UNCHANGED <<trustedIssuers, kycStatus>>
          ELSE /\ UNCHANGED <<trustedIssuers, kycStatus, nullifiers>>
               /\ lastTx' # lastTx => ~Succeeded(lastTx')
       /\ \A n \in Bytes32Args \cup {2} :
             (n \in nullifiers') <=> (VerifiedCount(n)' = 1)]_vars

\* C29 happens: an issuer was added, a user registered and a proof
\* verified, each with its event, and a rejected call added none.
C29_Witness ==
    /\ EventKinds = {"IssuerAdded", "KYCVerified", "ProofVerified"}
    /\ Len(events) = 3
    /\ lastTx.result \notin {"ok", "true", "false"}

\* C25: a generateZKProof call leaves every stored credential record as
\* it was.
C25_ProofGenerationOnlyReads ==
    [][\A id \in IssuerCredentialIds, r \in CircuitRequirements :
          IssuerGenerateZKProof(id, r) => UNCHANGED issuedCredentials]_vars

\* C26: issuance and revocation do not disturb each other. The settling of
\* an issuance stores a new active record under an id that was not stored
\* and leaves every other record and the revoked set as they are, so what
\* was revoked during the suspension stays revoked; a revocation writes
\* its own record only and leaves the issuances in flight as they are. The
\* two write different records, so either order gives the same state.
C26_IssuanceAndRevocationSerialized ==
    [][/\ \A g \in signing :
             IssuerSignSettles(g) =>
                 /\ g.credentialId \notin DOMAIN issuedCredentials
                 /\ issuedCredentials'[g.credentialId].status = "active"
                 /\ \A id \in DOMAIN issuedCredentials :
                        issuedCredentials'[id] = issuedCredentials[id]
                 /\ revokedCredentials' = revokedCredentials
       /\ \A id \in DOMAIN issuedCredentials, r \in Reasons \cup {""} :
             IssuerRevokeCredential(id, r) =>
                 /\ signing' = signing
                 /\ DOMAIN issuedCredentials' = DOMAIN issuedCredentials
                 /\ issuedCredentials'[id].status = "revoked"
                 /\ id \in revokedCredentials'
                 /\ \A other \in DOMAIN issuedCredentials \ {id} :
                        issuedCredentials'[other] = issuedCredentials[other]]_vars

\* C26 happens: a subject's credential was revoked while an issuance for
\* the same subject was suspended at signCredential.
C26_Witness ==
    \E g \in signing, id \in DOMAIN issuedCredentials :
        /\ issuedCredentials[id].userAddress = ToLowerCase(g.userAddress)
        /\ issuedCredentials[id].status = "revoked"
        /\ issuedCredentials[id].revokedAt > g.issuanceDate

\* C27: verifyCredential reports valid only for a stored credential that
\* is not revoked and whose expiration date has not passed at the time of
\* the call, and it does report such a credential valid when no bad proof
\* comes with it; so a credential reported valid before is reported
\* invalid by the first call after its revocation or expiry.
C27_ValidityRecomputedOnEveryCall ==
    [][UNCHANGED <<now, issuedCredentials, signing>> =>
          \A id \in {lastReturn'.credentialId}, p \in DisclosureProofs :
             IssuerVerifyCredential(id, p) =>
                 LET good == /\ id \in DOMAIN issuedCredentials
                             /\ issuedCredentials[id].status = "active"
                             /\ issuedCredentials[id].expirationDate >= now
                 IN /\ lastReturn'.value => good
                    /\ (good /\ p # "other") => lastReturn'.value
                    /\ (validBefore' /\ ~good) =>
                           lastReturn'.error \in {"Credential revoked",
                                                  "Credential expired"}]_vars

\* C27 happens: a credential that was reported valid has expired, and the
\* next call reports it expired.
C27_Witness ==
    /\ validBefore
    /\ lastReturn.fn = "verifyCredential"
    /\ lastReturn.error = "Credential expired"

C30_DisclosesRequestedStoredAttributes ==
    [][\A id \in IssuerCredentialIds, a \in AttributeRequests :
          IssuerGenerateSelectiveDisclosure(id, a) =>
              /\ UNCHANGED <<issuedCredentials, revokedCredentials, signing>>
              /\ IF /\ id \in DOMAIN issuedCredentials
                    /\ issuedCredentials[id].status = "active"
                 THEN LET subject == issuedCredentials[id].credentialSubject
                      IN /\ lastReturn'.error = ""
                         /\ lastReturn'.value =
                                [attr \in a \cap DOMAIN subject |->
                                    subject[attr]]
                 ELSE lastReturn'.error # ""]_vars

\* C35: kycStatus changes only in a registerKYC that succeeds, nullifiers
\* only in a verifyProof that succeeds and trustedIssuers only in an
\* addTrustedIssuer or removeTrustedIssuer that succeeds; removing an
\* issuer leaves hasValidKYC of every user as it was, and a transaction
\* that reverts leaves the three mappings as they were.
C35_RegistryFrames ==
    [][/\ kycStatus' # kycStatus => lastTx' = Tx("registerKYC", "ok")
       /\ nullifiers' # nullifiers => lastTx' = Tx("verifyProof", "true")
       /\ trustedIssuers' # trustedIssuers =>
             lastTx' \in {Tx("addTrustedIssuer", "ok"),
                          Tx("removeTrustedIssuer", "ok")}
       /\ (lastTx'.fn = "removeTrustedIssuer" /\ events' # events) =>
             \A u \in KYCUsers : hasValidKYC(u)' = hasValidKYC(u)
       /\ ~Succeeded(lastTx') =>
             UNCHANGED <<trustedIssuers, kycStatus, nullifiers>>]_vars

\* C35 happens: the issuer that registered a user was removed, and the
\* user's KYC is still valid.
C35_Witness ==
    /\ lastTx = Tx("removeTrustedIssuer", "ok")
    /\ trustedIssuers = {}
    /\ \E u \in KYCUsers : hasValidKYC(u)

\* C38: admin is the deployer, in every state the contract reaches.
C38_AdminIsDeployer == admin = Deployer

\* C38 happens: the admin added an issuer, and a transaction of a sender
\* who is not the admin was rejected.
C38_Witness ==
    /\ admin = Deployer
    /\ trustedIssuers # {}
    /\ lastTx.result = "Only admin"

\* C36: revokedCredentials holds exactly the ids of the stored records
\* whose status is 'revoked', and the counts getStats returns satisfy
\* activeCredentials + revokedCredentials = totalCredentials.
C36_RevokedSetMatchesStatus ==
    /\ revokedCredentials =
           {id \in DOMAIN issuedCredentials :
               issuedCredentials[id].status = "revoked"}
    /\ IssuerGetStats.activeCredentials + IssuerGetStats.revokedCredentials
           = IssuerGetStats.totalCredentials

\* C36 happens: of two credentials issued one was revoked, after the
\* clock moved on, and the other is active.
C36_Witness ==
    /\ IssuerGetStats.totalCredentials = 2
    /\ IssuerGetStats.activeCredentials = 1
    /\ \E id \in revokedCredentials :
          /\ issuedCredentials[id].revokedAt > issuedCredentials[id].issuedAt
          /\ issuedCredentials[id].revocationReason = ""

\* C32: every proofCache entry of a credential that is revoked carries
\* invalidated = true.
C32_RevokedProofsInvalidated ==
    \A n \in DOMAIN proofCache :
        (/\ HasCredentialId(proofCache[n].credentialId)
         /\ getCredentialById(proofCache[n].credentialId).revoked)
            => proofCache[n].invalidated

\* C31: when a verifyProof call's on-chain verifier call settles with
\* anything but true (false, or an exception), the call does not return
\* success and the proof cache is left as it was.
C31_SuccessOnlyIfOnChainTrue ==
    [][\A c \in verifying \ verifying' :
          (c.pc = "verifierContract.verifyProof" /\ onChainValid' # "true") =>
              /\ lastVerify'.result # "success"
              /\ UNCHANGED <<proofCache, successes>>]_vars

\* C34: a revokeCredential call for an address that has no credential
\* returns the failure 'Credential not found' and changes nothing; a call
\* for an address that has one changes that address's credential only, and
\* of the proof cache only the entries of that credential's id, whose
\* invalidated flag it sets; every entry keeps its verified flag.
C34_RevokeFrame ==
    [][lastRevoke'.error # "none" =>
          \A a \in AddressInputs \cup OtherAddresses, r \in Reasons :
              revokeCredential(a, r) =>
                  LET address == ToLowerCase(a)
                  IN IF address \notin DOMAIN credentials
                     THEN /\ lastRevoke'.success = FALSE
                          /\ lastRevoke'.error = "Credential not found"
                          /\ UNCHANGED <<credentials, proofCache, proving,
                                         verifying, successes>>
                     ELSE /\ lastRevoke'.success
                          /\ DOMAIN credentials' = DOMAIN credentials
                          /\ \A b \in DOMAIN credentials \ {address} :
                                credentials'[b] = credentials[b]
                          /\ DOMAIN proofCache' = DOMAIN proofCache
                          /\ \A n \in DOMAIN proofCache :
                                /\ proofCache'[n].verified =
                                       proofCache[n].verified
                                /\ proofCache[n].credentialId #
                                       credentials[address].id =>
                                       proofCache'[n] = proofCache[n]]_vars

\* C34 happens: one user's credential was revoked while the other user's
\* credential has a verified proof, which is not invalidated, and a call
\* for an address without a credential had failed before.
C34_Witness ==
    /\ lastRevoke.success
    /\ \E a \in DOMAIN credentials :
          /\ credentials[a].id = lastRevoke.credentialId
          /\ credentials[a].revoked
    /\ \E b \in DOMAIN credentials, n \in DOMAIN proofCache :
          /\ ~credentials[b].revoked
          /\ proofCache[n].credentialId = credentials[b].id
          /\ proofCache[n].verified
          /\ ~proofCache[n].invalidated

\* C33: batchVerifyProofs has one verifyProof call in flight at a time,
\* for the proof after those that have a result; the results are those of
\* the inputs in input order, and the batch does not reject but returns
\* with one result per input, also after a call threw; total is the
\* length of the input, valid the number of results with success, success
\* holds exactly when every result has success, and a nullifier that
\* generateProof returned has at most one result with success.
C33_BatchResultsMatchInputs ==
    LET k == Len(batch.results)
        Successes == {i \in 1..k : batch.results[i].success}
    IN /\ batch.pc # "rejected"
       /\ k <= Len(batch.proofs)
       /\ \A i \in 1..k : batch.results[i].proofId = batch.proofs[i].nullifier
       /\ batch.slot # 0 =>
             /\ batch.pc = "await"
             /\ k < Len(batch.proofs)
             /\ \E c \in verifying :
                   /\ c.slot = batch.slot
                   /\ c.nullifier = batch.proofs[k + 1].nullifier
       /\ \A n \in DOMAIN proofCache :
             Cardinality({i \in Successes : batch.results[i].proofId = n}) <= 1
       /\ batch.pc = "returned" =>
             /\ k = Len(batch.proofs)
             /\ batch.summary.total = Len(batch.proofs)
             /\ batch.summary.valid = Cardinality(Successes)
             /\ batch.summary.success <=> Successes = 1..k

\* C37: while userAddress is not empty, contract and credential are set
\* and the credential is that address's; after the Disconnect handler and
\* after an accountsChanged event with no account, userAddress, contract,
\* credential and network have their initial values; isConnecting is false
\* while no connectWallet call is in progress.
C37_WalletSessionConsistent ==
    /\ appUserAddress # "" =>
          /\ appContract # Null
          /\ appCredential # Null
          /\ appCredential.userAddress = appUserAddress
    /\ lastEvent \in {"disconnect", "accountsChanged: none"} =>
          /\ appUserAddress = ""
          /\ appContract = Null
          /\ appCredential = Null
          /\ appNetwork = "Not Connected"
    /\ connecting = {} => ~isConnecting

(***************************************************************************)
(* Specifications                                                          *)
(***************************************************************************)
Init ==
    /\ now = 1
    /\ VSInit
    /\ RegInit
    /\ SrvInit
    /\ derived = {}
    /\ CIInit
    /\ AppInit

\* The service as its constructor leaves it: no circuit artifact is ever
\* loaded, so proofs are mock proofs and verification is mockVerifyProof.
Spec == Init /\ [][VSCalls]_vars

\* The service with the circuit artifacts loaded (lines 16-19 and 29-32:
\* "in production, load from files").
LoadedInit ==
    /\ now = 1
    /\ artifacts = TRUE
    /\ verifierContract = FALSE
    /\ credentials = <<>>
    /\ proofCache = <<>>
    /\ proving = {}
    /\ verifying = {}
    /\ successes = <<>>
    /\ lastVerify = NoCall
    /\ onChainValid = "none"
    /\ lastRevoke = NoRevoke
    /\ batch = NoBatch
    /\ RegInit
    /\ SrvInit
    /\ derived = {}
    /\ CIInit
    /\ AppInit

SpecLoaded ==
    LoadedInit /\ [][VSCalls \/ VSSettles]_vars

SpecRevoke == Init /\ [][VSRevokeNext]_vars

SpecBatch == LoadedInit /\ [][VSBatchNext]_vars

SpecApp == Init /\ [][AppNext]_vars

SpecRegistry == Init /\ [][RegNext]_vars

SpecServer == Init /\ [][SrvNext]_vars

SpecNullifier == Init /\ [][NfNext]_vars

SpecIssuer == Init /\ [][CINext]_vars

SpecIssuerVerify == Init /\ [][CIVerifyNext]_vars

SpecIssuerProve == Init /\ [][CIProveNext]_vars

SpecIssuerDisclose == Init /\ [][CIDiscloseNext]_vars
====
